---- MODULE Spec2Model ----
(***************************************************************************)
(* Model of the ask-question route (src/app/api/ask-question/route.ts):    *)
(* the POST handler and the three helpers it awaits (getHfEmbedding,       *)
(* tryExtractiveQA, tryGenerateWithFallbacks).  One action runs the        *)
(* handler from one await to the next.  Remote replies are inputs.         *)
(***************************************************************************)
EXTENDS Integers, Sequences, FiniteSets, TLC

----------------------------------------------------------------------------
(* Bounds of the model *)

\* longest string drawn for a question or an answer
MaxStrLen == 2
\* most sections the similarity search returns in the model
MaxSections == 2
\* length of a text longer than the dump of a generation body may be
LongTextLen == 4100
\* most words of the body of an email
MaxWords == 2
\* most requests the page sends
MaxRequests == 3

----------------------------------------------------------------------------
(* JavaScript values.  A string is a sequence of characters. *)

JsUndef == [t |-> "undefined"]
JsNull == [t |-> "null"]
JsStr(s) == [t |-> "str", v |-> s]
JsNum(n) == [t |-> "num", v |-> n]
JsBool(b) == [t |-> "bool", v |-> b]
\* a fixed text of the program (a message, a tag); v is its name
JsLit(m) == [t |-> "lit", v |-> m]

Chars == {" ", "a"}
StrUpTo(n) == UNION {[1..k -> Chars] : k \in 0..n}

IsWhite(c) == c \in {" ", "\n", "\t"}

\* ToBoolean
Truthy(x) ==
    CASE x.t = "undefined" -> FALSE
      [] x.t = "null" -> FALSE
      [] x.t = "str" -> Len(x.v) > 0
      [] x.t = "num" -> x.v # 0
      [] x.t = "bool" -> x.v
      [] OTHER -> TRUE

\* a || b
JsOrMutant(a, b) == a
JsOr(a, b) == IF Truthy(a) THEN a ELSE b

\* a ?? b
NullishMutant(a, b) == IF Truthy(a) THEN a ELSE b
Nullish(a, b) == IF a.t \in {"undefined", "null"} THEN b ELSE a

RECURSIVE TrimStart(_)
TrimStart(s) ==
    IF s = <<>> THEN <<>>
    ELSE IF IsWhite(Head(s)) THEN TrimStart(Tail(s)) ELSE s

RECURSIVE TrimEnd(_)
TrimEnd(s) ==
    IF s = <<>> THEN <<>>
    ELSE IF IsWhite(s[Len(s)]) THEN TrimEnd(SubSeq(s, 1, Len(s) - 1)) ELSE s

\* String.prototype.trim
TrimMutant(s) == s
Trim(s) == TrimEnd(TrimStart(s))

\* Array.prototype.join on an array of strings
RECURSIVE Join(_, _)
Join(arr, sep) ==
    IF arr = <<>> THEN <<>>
    ELSE IF Len(arr) = 1 THEN arr[1]
    ELSE arr[1] \o sep \o Join(Tail(arr), sep)

\* Array.prototype.filter(Boolean)
RECURSIVE FilterBoolean(_)
FilterBoolean(arr) ==
    IF arr = <<>> THEN <<>>
    ELSE IF Truthy(Head(arr)) THEN <<Head(arr)>> \o FilterBoolean(Tail(arr))
    ELSE FilterBoolean(Tail(arr))

\* String.prototype.slice(0, n)
Slice0(s, n) == SubSeq(s, 1, IF Len(s) < n THEN Len(s) ELSE n)

----------------------------------------------------------------------------
(* Replies of the remote services *)

\* HTTP statuses the inference service answers with
Statuses == {200, 404, 429, 500}

\* Response.ok
RespOk(resp) == resp.status \in 200..299

\* A reply to fetch: thrown is a transport error (fetch rejects), else the
\* reply has a status and a body.  Only a 2xx reply has its body read, so
\* the other replies carry one of two bodies: a text that is not JSON, or
\* a JSON object with none of the fields looked for.
OkStatuses == {s \in Statuses : s \in 200..299}
Replies(Bodies, ErrorBodies) ==
    [thrown : {TRUE}, status : {0}, body : {b \in ErrorBodies : ~b.parses}]
    \cup [thrown : {FALSE}, status : Statuses \ OkStatuses, body : ErrorBodies]
    \cup [thrown : {FALSE}, status : OkStatuses, body : Bodies]

\* The text of a body.  parses: JSON.parse succeeds.  kind: what the parsed
\* value is.  elem: what its first element is when it is an array ("none"
\* for an empty array).  The named fields are those of the object itself
\* (kind "object") or of its first element (kind "array", elem "object").

\* --- embedding bodies -------------------------------------------------
\* the numbers an embedding reply carries
TheNumbers == <<1, 2>>
TheVector == [t |-> "vec", v |-> TheNumbers]
\* other numbers a field of a reply may carry
OtherNumbers == <<3, 4>>
\* an array of numbers as a value
Vec(numbers) == [t |-> "vec", v |-> numbers]

\* the numbers carried by the value itself (an array), by json.embedding,
\* by json.embeddings and by json.data[0].embedding, where they are there
NumbersIn(top, embedding, embeddings, data0) ==
    [top |-> top, embedding |-> embedding, embeddings |-> embeddings,
     data0 |-> data0]
SameNumbers == NumbersIn(TheNumbers, TheNumbers, TheNumbers, TheNumbers)

\* first: what json[0] is when the value is an array.  embedding,
\* embeddings, data0: what json.embedding, json.embeddings and
\* json.data[0] are when the value is an object.  numbers: the numbers
\* those carry.
EmbedBodiesWith(Numbers) ==
    [parses : {FALSE}, kind : {"null"}, first : {"undefined"},
     embedding : {"undefined"}, embeddings : {"undefined"}, data0 : {"undefined"},
     numbers : {SameNumbers}]
    \cup [parses : {TRUE}, kind : {"null"}, first : {"undefined"},
          embedding : {"undefined"}, embeddings : {"undefined"}, data0 : {"undefined"},
          numbers : {SameNumbers}]
    \cup [parses : {TRUE}, kind : {"array"},
          first : {"undefined", "number", "numArray", "other"},
          embedding : {"undefined"}, embeddings : {"undefined"}, data0 : {"undefined"},
          numbers : {n \in Numbers :
                       n.embedding = TheNumbers /\ n.embeddings = TheNumbers
                       /\ n.data0 = TheNumbers}]
    \cup [parses : {TRUE}, kind : {"object"}, first : {"undefined"},
          embedding : {"undefined", "numArray", "other"},
          embeddings : {"undefined", "flat", "nested", "other"},
          data0 : {"undefined", "embedding", "other"},
          numbers : {n \in Numbers : n.top = TheNumbers}]

\* the bodies of the replies to the requests followed: every field that
\* carries numbers carries the same
EmbedBodies == EmbedBodiesWith({SameNumbers})

EmbedErrorBodies ==
    {b \in EmbedBodies :
        \/ ~b.parses
        \/ /\ b.kind = "object" /\ b.embedding = "undefined"
           /\ b.embeddings = "undefined" /\ b.data0 = "undefined"}
EmbedReplies == Replies(EmbedBodies, EmbedErrorBodies)

\* --- question-answering bodies -----------------------------------------
\* answers of every kind without a score, and one padded answer with every
\* kind of score
QaAnswers ==
    {JsUndef, JsNum(5)} \cup {JsStr(s) : s \in StrUpTo(MaxStrLen)}
QaScores == {JsUndef, JsNum(0), JsNum(91)}
QaAnswerAndScore ==
    (QaAnswers \X {JsUndef}) \cup ({JsStr(<<" ", "a">>)} \X QaScores)
QaBodies ==
    [parses : {FALSE}, kind : {"null"}, elem : {"none"},
     answer : {JsUndef}, score : {JsUndef}]
    \cup [parses : {TRUE}, kind : {"null", "number"}, elem : {"none"},
          answer : {JsUndef}, score : {JsUndef}]
    \cup [parses : {TRUE}, kind : {"array"}, elem : {"none", "null"},
          answer : {JsUndef}, score : {JsUndef}]
    \cup {[parses |-> TRUE, kind |-> k, elem |-> "object",
           answer |-> as[1], score |-> as[2]] :
             k \in {"array", "object"}, as \in QaAnswerAndScore}

QaErrorBodies ==
    {b \in QaBodies : ~b.parses \/ (b.kind = "object" /\ b.answer = JsUndef)}
QaReplies == Replies(QaBodies, QaErrorBodies)

\* --- generation bodies --------------------------------------------------
\* generated_text and text of a body: a padded text, an empty text, a
\* value that is no text, none, and both.  A body of kind "string" is a
\* JSON string of LongTextLen characters.
GenTexts ==
    {<<JsStr(<<" ", "a">>), JsUndef>>, <<JsStr(<<>>), JsUndef>>,
     <<JsUndef, JsStr(<<"a">>)>>, <<JsNum(5), JsUndef>>, <<JsUndef, JsUndef>>,
     <<JsStr(<<"a">>), JsStr(<<" ">>)>>}
GenBodies ==
    [parses : {FALSE}, kind : {"null"}, elem : {"none"},
     generated_text : {JsUndef}, text : {JsUndef}]
    \cup [parses : {TRUE}, kind : {"null", "number", "string"}, elem : {"none"},
          generated_text : {JsUndef}, text : {JsUndef}]
    \cup [parses : {TRUE}, kind : {"array"}, elem : {"none", "null"},
          generated_text : {JsUndef}, text : {JsUndef}]
    \cup {[parses |-> TRUE, kind |-> k, elem |-> "object",
           generated_text |-> gt[1], text |-> gt[2]] :
             k \in {"array", "object"}, gt \in GenTexts}

GenErrorBodies ==
    {b \in GenBodies :
        \/ ~b.parses
        \/ b.kind = "object" /\ b.generated_text = JsUndef /\ b.text = JsUndef}
GenReplies == Replies(GenBodies, GenErrorBodies)

\* --- similarity search --------------------------------------------------
\* section_content of a returned row
SectionContents == {JsNull, JsStr(<<>>), JsStr(<<"a">>), JsStr(<<"b">>)}
SectionLists == UNION {[1..k -> SectionContents] : k \in 0..MaxSections}

----------------------------------------------------------------------------
(* The helpers of route.ts, as functions of the reply they await *)

Thrown == [ok |-> FALSE]
Returned(x) == [ok |-> TRUE, val |-> x]

\* getHfEmbedding, from the reply of its fetch to its result
EmbeddingResultMutant(resp) ==
    LET json == resp.body IN
    IF resp.thrown THEN Thrown
    ELSE IF ~RespOk(resp) THEN Thrown
    ELSE IF ~json.parses THEN Thrown
    ELSE IF json.kind = "null" THEN Thrown
    ELSE Returned(TheVector)
EmbeddingResult(resp) ==
    LET json == resp.body IN
    IF resp.thrown THEN Thrown
    ELSE IF ~RespOk(resp) THEN Thrown
    ELSE IF ~json.parses THEN Thrown
    ELSE IF json.kind = "array" /\ json.first = "number"
         THEN Returned(Vec(json.numbers.top))
    ELSE IF json.kind = "array" /\ json.first = "numArray"
         THEN Returned(Vec(json.numbers.top))
    ELSE IF json.kind = "null" THEN Thrown
    ELSE IF json.embedding = "numArray" THEN Returned(Vec(json.numbers.embedding))
    ELSE IF json.embeddings = "nested" THEN Returned(Vec(json.numbers.embeddings))
    ELSE IF json.embeddings = "flat" THEN Returned(Vec(json.numbers.embeddings))
    ELSE IF json.data0 = "embedding" THEN Returned(Vec(json.numbers.data0))
    ELSE Thrown

\* tryExtractiveQA, from the reply of its fetch to its result: JsNull or
\* an { answer, score } record
QaNone == [found |-> FALSE, answer |-> JsUndef, score |-> JsUndef]
QaFound(a, sc) == [found |-> TRUE, answer |-> a, score |-> sc]

ExtractiveResult(resp) ==
    LET json == resp.body IN
    IF resp.thrown THEN QaNone
    ELSE IF ~RespOk(resp) THEN QaNone
    ELSE IF ~json.parses THEN QaNone
    ELSE IF json.kind = "array" /\ json.elem = "null" THEN QaNone
    ELSE IF json.kind = "array" /\ json.elem = "object" /\ json.answer.t = "str"
         THEN QaFound(json.answer, json.score)
    ELSE IF json.kind = "null" THEN QaNone
    ELSE IF json.kind = "object" /\ Truthy(json.answer) /\ json.answer.t = "str"
         THEN QaFound(json.answer, json.score)
    ELSE QaNone

\* the test of POST on the result of tryExtractiveQA
UsableAnswer(qaResult) ==
    /\ qaResult.found
    /\ Truthy(qaResult.answer)
    /\ Truthy(JsStr(Trim(qaResult.answer.v)))
    /\ Len(Trim(qaResult.answer.v)) > 0

\* JSON.stringify of a parsed generation body, character by character
KeyGeneratedText ==
    <<"\"", "g", "e", "n", "e", "r", "a", "t", "e", "d", "_", "t", "e", "x", "t", "\"", ":">>
KeyText == <<"\"", "t", "e", "x", "t", "\"", ":">>

StringifyVal(x) ==
    CASE x.t = "str" -> <<"\"">> \o x.v \o <<"\"">>
      [] x.t = "num" -> <<"5">>
      [] OTHER -> <<>>

StringifyObject(json) ==
    LET gt == IF json.generated_text.t = "undefined" THEN <<>>
              ELSE KeyGeneratedText \o StringifyVal(json.generated_text)
        tx == IF json.text.t = "undefined" THEN <<>>
              ELSE KeyText \o StringifyVal(json.text)
        sep == IF gt # <<>> /\ tx # <<>> THEN <<",">> ELSE <<>>
    IN <<"{">> \o gt \o sep \o tx \o <<"}">>

\* JSON.stringify of a string of LongTextLen characters
StringifyLong == <<"\"">> \o [k \in 1..LongTextLen |-> "x"] \o <<"\"">>

Stringify(json) ==
    CASE json.kind = "null" -> <<"n", "u", "l", "l">>
      [] json.kind = "number" -> <<"5">>
      [] json.kind = "string" -> StringifyLong
      [] json.kind = "object" -> StringifyObject(json)
      [] json.kind = "array" /\ json.elem = "none" -> <<"[", "]">>
      [] json.kind = "array" /\ json.elem = "null" ->
            <<"[", "n", "u", "l", "l", "]">>
      [] OTHER -> <<"[">> \o StringifyObject(json) \o <<"]">>

\* longest dump of an unrecognised generation body
DumpLimit == 4000

\* one generation call of tryGenerateWithFallbacks (either pipeline), from
\* the reply of its fetch to the text it returns; Thrown when the call
\* fails and the loop goes on
GenerationResultDumpsNull(resp) ==
    LET json == resp.body IN
    IF resp.thrown THEN Thrown
    ELSE IF ~RespOk(resp) THEN Thrown
    ELSE IF ~json.parses THEN Thrown
    ELSE IF json.kind = "array" /\ json.elem = "null" THEN Thrown
    ELSE IF json.kind = "array" /\ json.elem = "object"
            /\ json.generated_text.t = "str"
         THEN Returned(json.generated_text.v)
    ELSE IF json.kind = "object" /\ Truthy(json.generated_text)
            /\ json.generated_text.t = "str"
         THEN Returned(json.generated_text.v)
    ELSE IF json.kind = "array" /\ json.elem = "object" /\ json.text.t = "str"
         THEN Returned(json.text.v)
    ELSE Returned(Slice0(Stringify(json), DumpLimit))
GenerationResultMutant(resp) ==
    LET json == resp.body IN
    IF resp.thrown THEN Thrown
    ELSE IF ~RespOk(resp) THEN Thrown
    ELSE IF ~json.parses THEN Thrown
    ELSE IF json.kind = "array" /\ json.elem = "null" THEN Thrown
    ELSE IF json.kind = "array" /\ json.elem = "object" /\ json.text.t = "str"
         THEN Returned(json.text.v)
    ELSE IF json.kind = "array" /\ json.elem = "object"
            /\ json.generated_text.t = "str"
         THEN Returned(json.generated_text.v)
    ELSE IF json.kind = "null" THEN Thrown
    ELSE IF json.kind = "object" /\ Truthy(json.generated_text)
            /\ json.generated_text.t = "str"
         THEN Returned(json.generated_text.v)
    ELSE Returned(Slice0(Stringify(json), DumpLimit))
GenerationResult(resp) ==
    LET json == resp.body IN
    IF resp.thrown THEN Thrown
    ELSE IF ~RespOk(resp) THEN Thrown
    ELSE IF ~json.parses THEN Thrown
    ELSE IF json.kind = "array" /\ json.elem = "null" THEN Thrown
    ELSE IF json.kind = "array" /\ json.elem = "object"
            /\ json.generated_text.t = "str"
         THEN Returned(json.generated_text.v)
    ELSE IF json.kind = "null" THEN Thrown
    ELSE IF json.kind = "object" /\ Truthy(json.generated_text)
            /\ json.generated_text.t = "str"
         THEN Returned(json.generated_text.v)
    ELSE IF json.kind = "array" /\ json.elem = "object" /\ json.text.t = "str"
         THEN Returned(json.text.v)
    ELSE Returned(Slice0(Stringify(json), DumpLimit))

----------------------------------------------------------------------------
(* The POST handler of the ask-question route *)

\* the generation models POST configures, in order
genModels == <<"distilgpt2", "gpt2-medium", "facebook/opt-350m">>

\* default similarity threshold, in tenths (-0.3)
DefaultThreshold == -3
\* fixed result count of the similarity search
MatchCount == 10

\* bodies of the requests received
Questions ==
    {JsUndef, JsNull, JsNum(0), JsNum(5)}
    \cup {JsStr(s) : s \in StrUpTo(MaxStrLen)}
\* email_filter and match_threshold of a body: each absent, each of a kind
\* that is kept, and each of a kind that is not
FilterAndThreshold ==
    {<<JsUndef, JsUndef>>, <<JsNull, JsNum(0)>>,
     <<JsLit("alice@example.com"), JsLit("0.5")>>}
\* every question with the other fields absent, and one question with
\* every value of the other fields
RequestBodies ==
    [t : {"invalid", "null"}]
    \cup {[t |-> "object", question |-> q, email_filter |-> JsUndef,
           generateIfNoContext |-> JsUndef, match_threshold |-> JsUndef] :
             q \in Questions}
    \cup {[t |-> "object", question |-> JsStr(<<"a">>), email_filter |-> ft[1],
           generateIfNoContext |-> g, match_threshold |-> ft[2]] :
             ft \in FilterAndThreshold,
             g \in {JsUndef, JsBool(FALSE), JsBool(TRUE)}}

VARIABLES
    HF_API_KEY,           \* the credential is configured
    pc,                   \* where the handler is: the call it awaits
    question,             \* locals of POST
    emailFilter,
    generateIfNoContext,
    matchThreshold,
    questionEmbedding,
    error,
    context,
    qaResult,
    prompt,
    generated,
    genIdx,               \* tryGenerateWithFallbacks: index of the model
    genMode,              \* and the pipeline tried ("A" text-generation,
                          \* "B" text2text-generation)
    invoked,              \* helpers and gateways called by this request
    remote,               \* remote calls issued by this request, in order
    response,             \* the NextResponse returned
    responses             \* how many responses this request produced

\* the locals assigned from the request body
reqVars == <<question, emailFilter, generateIfNoContext, matchThreshold>>

vars ==
    <<HF_API_KEY, pc, question, emailFilter, generateIfNoContext,
      matchThreshold, questionEmbedding, error, context, qaResult, prompt,
      generated, genIdx, genMode, invoked, remote, response, responses>>

\* The store-email route (src/unnamed/part_000): the locals of its POST
\* handler and of the getHfEmbedding call it awaits, and the two tables
VARIABLES
    storePc,              \* where the handler is: what it awaits
    emailBody,            \* locals of POST: body,
    emailId,
    chunks,
    chunkIndex,           \* i + 1: the chunk being processed, from 1
    embedding,
    url,                  \* getHfEmbedding: index of the endpoint tried
    attempt,              \* and the attempt on it
    fetches,              \* fetch calls of the current getHfEmbedding call
    delays,               \* timers the current getHfEmbedding call awaited
    emails,               \* rows of the table emails
    sections,             \* rows of the table email_sections
    storeResponse         \* the NextResponse returned

storeVars ==
    <<storePc, emailBody, emailId, chunks, chunkIndex, embedding, url,
      attempt, fetches, delays, emails, sections, storeResponse>>

\* The normalisation of an embedding reply taken alone: a parsed 2xx body,
\* and what each of the two getHfEmbedding functions makes of it
VARIABLES
    normBody,             \* the body given to both
    askNorm,              \* result of getHfEmbedding of route.ts
    storeNorm             \* result of one attempt of getHfEmbedding of
                          \* part_000

normVars == <<normBody, askNorm, storeNorm>>

\* The ask-question page (src/app/ask-question/page.tsx): the state of
\* the component, and the requests it sent that are not answered yet
VARIABLES
    pageQuestion,         \* useState: question,
    pageAnswer,           \* answer,
    isLoading,
    errorMessage,
    history,
    inFlight,             \* the calls of handleSubmit that await their
                          \* fetch: the question each closed over
    submitted             \* how many requests the page sent

pageVars ==
    <<pageQuestion, pageAnswer, isLoading, errorMessage, history, inFlight,
      submitted>>

\* the page after its mount, with nothing in the session storage
PageInit ==
    /\ pageQuestion = <<>>
    /\ pageAnswer = JsNull
    /\ isLoading = FALSE
    /\ errorMessage = JsNull
    /\ history = <<>>
    /\ inFlight = <<>>
    /\ submitted = 0

NoResponse == [status |-> 0, body |-> JsUndef]

\* no body was given, and a function that was not applied
NoBody == [parses |-> FALSE, kind |-> "none"]
NotApplied == [applied |-> FALSE]

\* the store-email route before a request
StoreInit ==
    /\ storePc = "idle"
    /\ emailBody = <<>>
    /\ emailId = JsUndef
    /\ chunks = <<>>
    /\ chunkIndex = 0
    /\ embedding = JsUndef
    /\ url = 0
    /\ attempt = 0
    /\ fetches = <<>>
    /\ delays = <<>>
    /\ emails = <<>>
    /\ sections = <<>>
    /\ storeResponse = NoResponse

\* body of a NextResponse.json: absent fields are JsUndef
Payload(answer, contextFound, source, score, info, err) ==
    [answer |-> answer, contextFound |-> contextFound, source |-> source,
     score |-> score, info |-> info, error |-> err]

ErrorPayload(msg) ==
    Payload(JsUndef, JsUndef, JsUndef, JsUndef, JsUndef, msg)

noContextMsg == JsLit("No relevant email content was found for that query.")
generalAnswerMsg ==
    JsLit("No matching email content found - returned a general answer.")
systemPrefix == JsLit("systemPrefix")
noContextPlaceholder == JsLit("(no context available)")
exhaustedMsg ==
    JsLit("Failed to generate answer: no available HF generation model.")

AskInit ==
    /\ HF_API_KEY \in BOOLEAN
    /\ pc = "idle"
    /\ question = <<>>
    /\ emailFilter = JsUndef
    /\ generateIfNoContext = FALSE
    /\ matchThreshold = JsUndef
    /\ questionEmbedding = JsUndef
    /\ error = JsUndef
    /\ context = <<>>
    /\ qaResult = QaNone
    /\ prompt = <<>>
    /\ generated = JsUndef
    /\ genIdx = 0
    /\ genMode = "A"
    /\ invoked = <<>>
    /\ remote = <<>>
    /\ response = NoResponse
    /\ responses = 0

\* the server before a request
Init ==
    /\ AskInit
    /\ StoreInit
    /\ normBody = NoBody
    /\ askNorm = NotApplied
    /\ storeNorm = NotApplied
    /\ PageInit

\* return NextResponse.json(body, { status })
Respond(status, body) ==
    /\ response' = [status |-> status, body |-> body]
    /\ responses' = responses + 1
    /\ pc' = "done"

\* the catch of POST: status 500 with err.message || "Failed to generate
\* response"
CatchAll(message) ==
    Respond(500, ErrorPayload(JsOr(message, JsLit("Failed to generate response"))))

\* the response to a request without a question
MissingQuestionResponse ==
    [status |-> 400, body |-> ErrorPayload(JsLit("Missing question"))]

\* the response of POST when tryGenerateWithFallbacks throws
ExhaustedResponseMutant ==
    [status |-> 200,
     body |-> Payload(JsStr(<<>>), JsBool(TRUE), JsLit("generation"), JsUndef,
                      JsUndef, JsUndef)]
ExhaustedResponse == [status |-> 502, body |-> ErrorPayload(exhaustedMsg)]

\* the response of POST when there is no context and no general answer is
\* asked for
NoContextResponse ==
    [status |-> 200,
     body |-> Payload(JsNull, JsBool(FALSE), JsUndef, JsUndef, noContextMsg,
                      JsUndef)]

\* a fetch of the inference service
FetchCall(pipeline, model, inputs) ==
    [to |-> pipeline, model |-> model, inputs |-> inputs]

\* supabase.rpc("match_filtered_email_sections", ...)
RpcCallMutant(vec, threshold, filter) ==
    [to |-> "match_filtered_email_sections", query_embedding |-> vec,
     match_threshold |-> threshold, match_count |-> MatchCount,
     email_address |-> JsOr(filter, JsLit("brandon@gmail.com"))]
RpcCall(vec, threshold, filter) ==
    [to |-> "match_filtered_email_sections", query_embedding |-> vec,
     match_threshold |-> threshold, match_count |-> MatchCount,
     email_address |-> filter]

\* the template literal of the prompt, part by part
BuildPromptMutant(ctx, q) ==
    <<systemPrefix, JsLit("Context:"), JsStr(ctx),
      JsLit("Question:"), JsStr(q), JsLit("Answer:")>>
BuildPrompt(ctx, q) ==
    <<systemPrefix, JsLit("Context:"), JsOr(JsStr(ctx), noContextPlaceholder),
      JsLit("Question:"), JsStr(q), JsLit("Answer:")>>

\* steps 4 and 5 of POST up to the first await of
\* tryGenerateWithFallbacks: build the prompt, call the engine, which
\* throws without a credential or without a model and else issues the
\* text-generation call of the first model
StartGenerationMutant(inv, rem, ctx) ==
    LET p == BuildPrompt(ctx, question) IN
    /\ prompt' = p
    /\ invoked' = Append(inv, "tryGenerateWithFallbacks")
    /\ UNCHANGED generated
    /\ remote' = rem \o <<FetchCall("text-generation", genModels[1], p),
                          FetchCall("text2text-generation", genModels[1], p)>>
    /\ genIdx' = 1
    /\ genMode' = "B"
    /\ pc' = "generating"
    /\ UNCHANGED <<response, responses>>
StartGeneration(inv, rem, ctx) ==
    LET p == BuildPrompt(ctx, question) IN
    /\ prompt' = p
    /\ invoked' = Append(inv, "tryGenerateWithFallbacks")
    /\ UNCHANGED generated
    /\ IF ~HF_API_KEY \/ Len(genModels) = 0
       THEN /\ Respond(ExhaustedResponse.status, ExhaustedResponse.body)
            /\ remote' = rem
            /\ UNCHANGED <<genIdx, genMode>>
       ELSE /\ remote' = Append(rem, FetchCall("text-generation", genModels[1], p))
            /\ genIdx' = 1
            /\ genMode' = "A"
            /\ pc' = "generating"
            /\ UNCHANGED <<response, responses>>

\* POST from its entry to its first await that suspends: parse and
\* validate the body, then call getHfEmbedding, which throws without a
\* credential and else issues the feature-extraction call
POST(bodyJson) ==
    /\ pc = "idle"
    /\ UNCHANGED <<storeVars, normVars, pageVars>>
    /\ UNCHANGED <<HF_API_KEY, questionEmbedding, error, context, qaResult,
                   prompt, generated, genIdx, genMode>>
    /\ LET q0 == IF bodyJson.t = "object" THEN bodyJson.question ELSE JsUndef
           q1 == JsOr(q0, JsStr(<<>>))
           ef == IF bodyJson.t = "object" THEN bodyJson.email_filter ELSE JsUndef
           g == IF bodyJson.t = "object" THEN bodyJson.generateIfNoContext ELSE JsUndef
           mt == IF bodyJson.t = "object" THEN bodyJson.match_threshold ELSE JsUndef
           q == Trim(q1.v)
       IN
       IF bodyJson.t = "invalid" \/ q1.t # "str"
       THEN \* request.json() or .trim() throws
            /\ CatchAll(JsLit("SyntaxError or TypeError"))
            /\ UNCHANGED <<reqVars, invoked, remote>>
       ELSE /\ question' = q
            /\ emailFilter' = IF ef.t = "undefined" THEN JsLit("brandon@gmail.com") ELSE ef
            /\ generateIfNoContext' = Truthy(g)
            /\ matchThreshold' = IF mt.t = "num" THEN mt ELSE JsNum(DefaultThreshold)
            /\ IF ~Truthy(JsStr(q))
               THEN /\ Respond(MissingQuestionResponse.status,
                               MissingQuestionResponse.body)
                    /\ UNCHANGED <<invoked, remote>>
               ELSE /\ invoked' = Append(invoked, "getHfEmbedding")
                    /\ IF ~HF_API_KEY
                       THEN /\ CatchAll(JsLit("HF_API_KEY not set"))
                            /\ UNCHANGED remote
                       ELSE /\ remote' = Append(remote,
                                   FetchCall("feature-extraction",
                                             "sentence-transformers/all-MiniLM-L6-v2",
                                             JsStr(q)))
                            /\ pc' = "embedding"
                            /\ UNCHANGED <<response, responses>>

\* POST from the reply to the embedding call to the similarity search
EmbeddingResolves(resp) ==
    /\ pc = "embedding"
    /\ UNCHANGED <<storeVars, normVars, pageVars>>
    /\ UNCHANGED <<HF_API_KEY, reqVars, error, context, qaResult, prompt,
                   generated, genIdx, genMode>>
    /\ LET r == EmbeddingResult(resp) IN
       IF ~r.ok
       THEN /\ CatchAll(JsLit("HF embedding error"))
            /\ UNCHANGED <<questionEmbedding, invoked, remote>>
       ELSE /\ questionEmbedding' = r.val
            /\ invoked' = Append(invoked, "supabase.rpc")
            /\ remote' = Append(remote, RpcCall(r.val, matchThreshold, emailFilter))
            /\ pc' = "searching"
            /\ UNCHANGED <<response, responses>>

\* the separator of the sections in the context: a blank line
sectionSeparator == <<"\n", "\n">>

\* the strings of an array of string values
RECURSIVE StringsOf(_)
StringsOf(arr) ==
    IF arr = <<>> THEN <<>> ELSE <<Head(arr).v>> \o StringsOf(Tail(arr))

\* (matchingSections || []).map(r => r.section_content).filter(Boolean)
\*     .join("\n\n")
BuildContextMutant(data) ==
    LET rows == IF data.t = "rows" THEN data.v ELSE <<>>
        kept == StringsOf(FilterBoolean(rows))
    IN Join([i \in 1..Len(kept) |-> kept[Len(kept) + 1 - i]], sectionSeparator)
BuildContext(data) ==
    LET rows == IF data.t = "rows" THEN data.v ELSE <<>>
    IN Join(StringsOf(FilterBoolean(rows)), sectionSeparator)

\* if (error)
SearchFailedMutant(reply) == FALSE
SearchFailed(reply) == reply.error.t # "undefined"

\* if (!context) { ... if (!generateIfNoContext) return ... }
NoContextReturnMutant(ctx, flag) == ~Truthy(JsStr(ctx)) /\ flag
NoContextReturn(ctx, flag) == ~Truthy(JsStr(ctx)) /\ ~flag

\* POST from the reply of the similarity search to the next await (the
\* extractive call, or the first generation call) or to its response
SearchResolves(reply) ==
    /\ pc = "searching"
    /\ UNCHANGED <<storeVars, normVars, pageVars>>
    /\ UNCHANGED <<HF_API_KEY, reqVars, questionEmbedding, qaResult>>
    /\ error' = reply.error
    /\ IF SearchFailed(reply)
       THEN /\ CatchAll(JsOr(reply.error.message, JsLit("Supabase RPC failed")))
            /\ UNCHANGED <<context, prompt, generated, genIdx, genMode,
                           invoked, remote>>
       ELSE LET ctx == BuildContext(reply.data) IN
            /\ context' = ctx
            /\ IF NoContextReturn(ctx, generateIfNoContext)
               THEN /\ Respond(NoContextResponse.status, NoContextResponse.body)
                    /\ UNCHANGED <<prompt, generated, genIdx, genMode, invoked,
                                   remote>>
               ELSE IF Truthy(JsStr(ctx))
               THEN IF ~HF_API_KEY
                    THEN \* thrown, caught by the try around the call
                         StartGeneration(Append(invoked, "tryExtractiveQA"),
                                         remote, ctx)
                    ELSE /\ invoked' = Append(invoked, "tryExtractiveQA")
                         /\ remote' = Append(remote,
                                FetchCall("question-answering",
                                          "deepset/roberta-base-squad2",
                                          [question |-> question, context |-> ctx]))
                         /\ pc' = "extracting"
                         /\ UNCHANGED <<prompt, generated, genIdx, genMode,
                                        response, responses>>
               ELSE StartGeneration(invoked, remote, ctx)

\* the response of POST to a usable extractive answer
ExtractiveResponseMutant(qa) ==
    [status |-> 200,
     body |-> Payload(JsStr(Trim(qa.answer.v)), JsBool(FALSE),
                      JsLit("extractive-qa"), Nullish(qa.score, JsNull),
                      JsUndef, JsUndef)]
ExtractiveResponse(qa) ==
    [status |-> 200,
     body |-> Payload(JsStr(Trim(qa.answer.v)), JsBool(TRUE),
                      JsLit("extractive-qa"), Nullish(qa.score, JsNull),
                      JsUndef, JsUndef)]

\* POST after tryExtractiveQA returned qa: its response, or the first
\* generation call
AfterExtractionMutant(qa) ==
    IF UsableAnswer(qa)
    THEN /\ Respond(ExtractiveResponse(qa).status, ExtractiveResponse(qa).body)
         /\ UNCHANGED <<prompt, generated, genIdx, genMode, invoked, remote>>
    ELSE IF qa.found
    THEN StartGeneration(invoked, remote, context)
    ELSE /\ CatchAll(JsLit("tryExtractiveQA error"))
         /\ UNCHANGED <<prompt, generated, genIdx, genMode, invoked, remote>>
AfterExtraction(qa) ==
    IF UsableAnswer(qa)
    THEN /\ Respond(ExtractiveResponse(qa).status, ExtractiveResponse(qa).body)
         /\ UNCHANGED <<prompt, generated, genIdx, genMode, invoked, remote>>
    ELSE StartGeneration(invoked, remote, context)

\* POST from the reply to the extractive call to its response or to the
\* first generation call
ExtractResolves(resp) ==
    /\ pc = "extracting"
    /\ UNCHANGED <<storeVars, normVars, pageVars>>
    /\ UNCHANGED <<HF_API_KEY, reqVars, questionEmbedding, error, context>>
    /\ qaResult' = ExtractiveResult(resp)
    /\ AfterExtraction(ExtractiveResult(resp))

\* the response of POST to a generated text
GenerationResponseMutant(ctx, text) ==
    [status |-> 200,
     body |-> Payload(JsStr(Trim(text)), JsBool(FALSE), JsUndef, JsUndef,
                      generalAnswerMsg, JsUndef)]
GenerationResponse(ctx, text) ==
    [status |-> 200,
     body |-> IF ~Truthy(JsStr(ctx))
              THEN Payload(JsStr(Trim(text)), JsBool(FALSE), JsUndef, JsUndef,
                           generalAnswerMsg, JsUndef)
              ELSE Payload(JsStr(Trim(text)), JsBool(TRUE), JsLit("generation"),
                           JsUndef, JsUndef, JsUndef)]

\* the model tried after model i failed under both pipelines
NextModelMutant(i) == i
NextModelSkip(i) == IF i + 2 <= Len(genModels) THEN i + 2 ELSE i + 1
NextModel(i) == i + 1

\* tryGenerateWithFallbacks and POST from the reply to a generation call
\* to the next generation call or to the response
GenResolves(resp) ==
    /\ pc = "generating"
    /\ UNCHANGED <<storeVars, normVars, pageVars>>
    /\ UNCHANGED <<HF_API_KEY, reqVars, questionEmbedding, error, context,
                   qaResult, prompt, invoked>>
    /\ LET r == GenerationResult(resp) IN
       IF r.ok
       THEN /\ generated' = JsStr(r.val)
            /\ Respond(GenerationResponse(context, r.val).status,
                       GenerationResponse(context, r.val).body)
            /\ UNCHANGED <<genIdx, genMode, remote>>
       ELSE IF genMode = "A"
       THEN /\ genMode' = "B"
            /\ remote' = Append(remote,
                   FetchCall("text2text-generation", genModels[genIdx], prompt))
            /\ UNCHANGED <<generated, genIdx, pc, response, responses>>
       ELSE IF genIdx < Len(genModels)
       THEN /\ genIdx' = NextModel(genIdx)
            /\ genMode' = "A"
            /\ remote' = Append(remote,
                   FetchCall("text-generation", genModels[NextModel(genIdx)], prompt))
            /\ UNCHANGED <<generated, pc, response, responses>>
       ELSE /\ Respond(ExhaustedResponse.status, ExhaustedResponse.body)
            /\ UNCHANGED <<generated, genIdx, genMode, remote>>

\* replies of the similarity search: { data, error }, where error is
\* undefined or an error whose message may be empty, and data is null or
\* the rows
RpcErrors == {[t |-> "error", message |-> m] : m \in {JsLit("db error"), JsStr(<<>>)}}
RpcReplies ==
    [error : RpcErrors, data : {JsNull}]
    \cup [error : {JsUndef},
          data : {JsNull} \cup {[t |-> "rows", v |-> l] : l \in SectionLists}]

Next ==
    \/ \E bodyJson \in RequestBodies : POST(bodyJson)
    \/ \E resp \in EmbedReplies : EmbeddingResolves(resp)
    \/ \E reply \in RpcReplies : SearchResolves(reply)
    \/ \E resp \in QaReplies : ExtractResolves(resp)
    \/ \E resp \in GenReplies : GenResolves(resp)

Spec == Init /\ [][Next]_vars

\* every remote call resolves
Resolves ==
    \/ \E resp \in EmbedReplies : EmbeddingResolves(resp)
    \/ \E reply \in RpcReplies : SearchResolves(reply)
    \/ \E resp \in QaReplies : ExtractResolves(resp)
    \/ \E resp \in GenReplies : GenResolves(resp)

FairSpec == Spec /\ WF_vars(Resolves)

----------------------------------------------------------------------------
(* The store-email route (src/unnamed/part_000) *)

\* A text of the store-email route is the sequence of the words that
\* text.split(" ") gives; a word is the number of its characters (0 for
\* the empty word between two spaces).  A string built from words is a
\* sequence of runs: a word of n characters, or one space.
WordRun(n) == [sp |-> FALSE, n |-> n]
SpaceRun == [sp |-> TRUE, n |-> 1]

\* the string of a word
WordStr(word) == IF word = 0 THEN <<>> ELSE <<WordRun(word)>>

\* String.prototype.length
RECURSIVE StrLen(_)
StrLen(str) == IF str = <<>> THEN 0 ELSE Head(str).n + StrLen(Tail(str))

\* default chunkSize of splitIntoChunks
chunkSize == 2000

\* the loop of splitIntoChunks over the words left, and its last push
RECURSIVE SplitWords(_, _, _)
SplitWords(words, currentChunk, acc) ==
    IF words = <<>>
    THEN IF currentChunk # <<>> THEN Append(acc, currentChunk) ELSE acc
    ELSE LET word == Head(words) IN
         IF StrLen(currentChunk) + word + 1 > chunkSize
         THEN SplitWords(Tail(words), WordStr(word), Append(acc, currentChunk))
         ELSE SplitWords(Tail(words),
                         currentChunk
                           \o (IF currentChunk # <<>> THEN <<SpaceRun>> ELSE <<>>)
                           \o WordStr(word),
                         acc)

splitIntoChunks(text) == SplitWords(text, <<>>, <<>>)

\* lengths of the words of the bodies received: the empty word, a word
\* two of which fit in a chunk and three of which do not, and a word that
\* fits in no chunk after another
WordLengths == {0, 700, 2000}
Texts == UNION {[1..k -> WordLengths] : k \in 1..MaxWords}

\* values of the fields of a request
AnEmail == JsLit("a@example.com")
NotAnEmail == JsLit("not an address")
JsArr(a) == [t |-> "arr", v |-> a]
JsText(words) == [t |-> "text", v |-> words]

\* z.string().email()
IsEmail(x) == x = AnEmail
\* z.array(z.string().email())
IsEmailArray(x) == x.t = "arr" /\ \A k \in DOMAIN x.v : IsEmail(x.v[k])

\* emailSchema.safeParse(requestData).success
SafeParse(requestData) ==
    /\ requestData.t = "object"
    /\ requestData.subject.t \in {"str", "lit"}
    /\ IsEmail(requestData.sender)
    /\ IsEmailArray(requestData.recipient)
    /\ requestData.cc = JsUndef \/ IsEmailArray(requestData.cc)
    /\ requestData.bcc = JsUndef \/ IsEmailArray(requestData.bcc)
    /\ requestData.body.t = "text"

\* a request that passes the validation, with the given body
ValidRequest(words) ==
    [t |-> "object", subject |-> JsLit("subject"), sender |-> AnEmail,
     recipient |-> JsArr(<<AnEmail>>), cc |-> JsUndef,
     bcc |-> JsArr(<<>>), body |-> JsText(words)]

\* bodies of the requests received: not JSON, not an object, valid with
\* every text, and one field wrong at a time
StoreRequests ==
    [t : {"invalid", "null"}]
    \cup {ValidRequest(w) : w \in Texts}
    \cup {[ValidRequest(<<700>>) EXCEPT !.subject = JsUndef],
          [ValidRequest(<<700>>) EXCEPT !.sender = NotAnEmail],
          [ValidRequest(<<700>>) EXCEPT !.recipient = JsArr(<<AnEmail, NotAnEmail>>)],
          [ValidRequest(<<700>>) EXCEPT !.cc = JsArr(<<NotAnEmail>>)],
          [ValidRequest(<<700>>) EXCEPT !.bcc = AnEmail],
          [ValidRequest(<<700>>) EXCEPT !.body = JsUndef]}

\* replies of an insert: { data, error }
InsertReplies ==
    {[error |-> JsUndef, data |-> [id |-> JsNum(1)]]}
    \cup [error : RpcErrors, data : {JsNull}]

\* the endpoints getHfEmbedding tries, in order
tryEndpointsMutant == <<"urlFallback", "urlPrimary">>
tryEndpoints == <<"urlPrimary", "urlFallback">>
\* attempts on one endpoint
maxAttempts == 3

\* one attempt of getHfEmbedding, from the reply of its fetch: the vector
\* it returns, a transient failure (back off and continue), or an error
\* thrown to the catch of the attempt
AttemptVector(v) == [kind |-> "vector", val |-> v]
AttemptTransient == [kind |-> "transient", val |-> JsUndef]
AttemptError == [kind |-> "error", val |-> JsUndef]

AttemptResultMutant(resp) ==
    LET json == resp.body IN
    IF resp.thrown THEN AttemptError
    ELSE IF ~RespOk(resp)
    THEN IF resp.status = 429 \/ resp.status >= 500
         THEN AttemptTransient ELSE AttemptError
    ELSE IF ~json.parses THEN AttemptError
    ELSE IF json.kind = "array" /\ json.first = "number"
         THEN AttemptVector(Vec(json.numbers.top))
    ELSE IF json.kind = "array" /\ json.first = "numArray"
         THEN AttemptVector(Vec(json.numbers.top))
    ELSE IF json.kind = "null" THEN AttemptError
    ELSE IF json.data0 = "embedding" THEN AttemptVector(Vec(json.numbers.data0))
    ELSE IF json.embedding = "numArray" THEN AttemptVector(Vec(json.numbers.embedding))
    ELSE IF json.embeddings = "nested" THEN AttemptVector(Vec(json.numbers.embeddings))
    ELSE IF json.embeddings = "flat" THEN AttemptVector(Vec(json.numbers.embeddings))
    ELSE AttemptError
AttemptResult(resp) ==
    LET json == resp.body IN
    IF resp.thrown THEN AttemptError
    ELSE IF ~RespOk(resp)
    THEN IF resp.status = 429 \/ resp.status >= 500
         THEN AttemptTransient ELSE AttemptError
    ELSE IF ~json.parses THEN AttemptError
    ELSE IF json.kind = "array" /\ json.first = "number"
         THEN AttemptVector(Vec(json.numbers.top))
    ELSE IF json.kind = "array" /\ json.first = "numArray"
         THEN AttemptVector(Vec(json.numbers.top))
    ELSE IF json.kind = "null" THEN AttemptError
    ELSE IF json.embedding = "numArray" THEN AttemptVector(Vec(json.numbers.embedding))
    ELSE IF json.embeddings = "nested" THEN AttemptVector(Vec(json.numbers.embeddings))
    ELSE IF json.embeddings = "flat" THEN AttemptVector(Vec(json.numbers.embeddings))
    ELSE IF json.data0 = "embedding" THEN AttemptVector(Vec(json.numbers.data0))
    ELSE AttemptError

\* the delay before the retry of a transient failure
BackoffMutant(a) == 300
Backoff(a) == 300 * a
\* the delay before the retry of an attempt that threw
RetryPause(a) == 250 * a

\* body of a NextResponse.json of the store-email route
StorePayload(message, err) == [message |-> message, error |-> err]

StoreRespond(status, payload) ==
    /\ storeResponse' = [status |-> status, body |-> payload]
    /\ storePc' = "done"

\* the catch of POST
StoreCatchMutant(message) ==
    StoreRespond(200, StorePayload(JsUndef,
                                   JsOr(message, JsLit("Failed to store email"))))
StoreCatch(message) ==
    StoreRespond(500, StorePayload(JsUndef,
                                   JsOr(message, JsLit("Failed to store email"))))

\* fetch(url, { method: "POST", headers, body })
StoreFetchCall(u, a, text) ==
    [url |-> tryEndpoints[u], attempt |-> a, inputs |-> text]

\* attempt a on endpoint u: its fetch is awaited
IssueFetch(u, a, log, text) ==
    /\ url' = u
    /\ attempt' = a
    /\ fetches' = Append(log, StoreFetchCall(u, a, text))
    /\ storePc' = "fetching"
    /\ UNCHANGED storeResponse

\* getHfEmbedding after the attempts on endpoint u ended: the first
\* attempt on the next endpoint, or the final throw, caught by POST
NextEndpoint(u, text) ==
    IF u < Len(tryEndpoints)
    THEN IssueFetch(u + 1, 1, fetches, text)
    ELSE /\ StoreCatch(JsLit("Failed to fetch embedding from Hugging Face with any endpoint"))
         /\ UNCHANGED <<url, attempt, fetches>>

\* getHfEmbedding(text) from its entry to its first fetch
CallGetHfEmbeddingMutant(text) ==
    /\ delays' = <<>>
    /\ IssueFetch(1, 1, <<>>, text)
CallGetHfEmbedding(text) ==
    /\ delays' = <<>>
    /\ IF ~HF_API_KEY
       THEN /\ StoreCatch(JsLit("HF_API_KEY not set in environment"))
            /\ fetches' = <<>>
            /\ UNCHANGED <<url, attempt>>
       ELSE IssueFetch(1, 1, <<>>, text)

\* the for loop of POST at chunk k of cs: the embedding of the chunk is
\* asked for, or the loop is over and the email is stored
ProcessChunk(cs, k) ==
    IF k > Len(cs)
    THEN /\ StoreRespond(200, StorePayload(JsLit("Email stored successfully!"),
                                           JsUndef))
         /\ UNCHANGED <<url, attempt, fetches, delays>>
    ELSE CallGetHfEmbedding(cs[k])

\* POST from its entry to the insert of the email
StorePOST(requestData) ==
    /\ storePc = "idle"
    /\ UNCHANGED <<vars, normVars, pageVars>>
    /\ UNCHANGED <<emailId, chunks, chunkIndex, embedding, url, attempt,
                   fetches, delays, emails, sections>>
    /\ IF requestData.t = "invalid"
       THEN /\ StoreCatch(JsLit("SyntaxError"))
            /\ UNCHANGED emailBody
       ELSE IF ~SafeParse(requestData)
       THEN /\ StoreRespond(400, StorePayload(JsUndef, JsLit("Invalid email data")))
            /\ UNCHANGED emailBody
       ELSE /\ emailBody' = requestData.body.v
            /\ storePc' = "insertingEmail"
            /\ UNCHANGED storeResponse

\* POST from the reply to the insert of the email to the first fetch of
\* the first chunk
EmailInsertResolves(reply) ==
    /\ storePc = "insertingEmail"
    /\ UNCHANGED <<vars, normVars, pageVars>>
    /\ UNCHANGED <<emailBody, embedding, sections>>
    /\ IF reply.error # JsUndef
       THEN /\ StoreCatch(JsOr(reply.error.message, JsLit("Failed to insert email")))
            /\ UNCHANGED <<emailId, chunks, chunkIndex, url, attempt, fetches,
                           delays, emails>>
       ELSE /\ emails' = Append(emails, [id |-> reply.data.id, body |-> emailBody])
            /\ emailId' = reply.data.id
            /\ chunks' = splitIntoChunks(emailBody)
            /\ chunkIndex' = 1
            /\ ProcessChunk(splitIntoChunks(emailBody), 1)

\* the section POST inserts for the chunk it processes
SectionOfMutant(id, chunk, vec, k) ==
    [email_id |-> id, section_content |-> chunk, embedding |-> vec,
     section_order |-> k - 1]
SectionOf(id, chunk, vec, k) ==
    [email_id |-> id, section_content |-> chunk, embedding |-> vec,
     section_order |-> k]

\* getHfEmbedding from the reply to a fetch to the timer, the next fetch
\* or its return, and POST from there to the insert of the section
FetchResolves(resp) ==
    /\ storePc = "fetching"
    /\ UNCHANGED <<vars, normVars, pageVars>>
    /\ UNCHANGED <<emailBody, emailId, chunks, chunkIndex, emails, sections>>
    /\ LET r == AttemptResult(resp) IN
       IF r.kind = "vector"
       THEN /\ embedding' = r.val
            /\ storePc' = "insertingSection"
            /\ UNCHANGED <<url, attempt, fetches, delays, storeResponse>>
       ELSE IF r.kind = "transient"
       THEN /\ delays' = Append(delays, Backoff(attempt))
            /\ storePc' = "waiting"
            /\ UNCHANGED <<embedding, url, attempt, fetches, storeResponse>>
       ELSE IF attempt = maxAttempts
       THEN /\ NextEndpoint(url, chunks[chunkIndex])
            /\ UNCHANGED <<embedding, delays>>
       ELSE /\ delays' = Append(delays, RetryPause(attempt))
            /\ storePc' = "waiting"
            /\ UNCHANGED <<embedding, url, attempt, fetches, storeResponse>>

\* getHfEmbedding from the end of a delay to the next fetch: the next
\* attempt on the endpoint, or the next endpoint when none is left
TimerFires ==
    /\ storePc = "waiting"
    /\ UNCHANGED <<vars, normVars, pageVars>>
    /\ UNCHANGED <<emailBody, emailId, chunks, chunkIndex, embedding, delays,
                   emails, sections>>
    /\ IF attempt + 1 <= maxAttempts
       THEN IssueFetch(url, attempt + 1, fetches, chunks[chunkIndex])
       ELSE NextEndpoint(url, chunks[chunkIndex])

\* POST from the reply to the insert of a section to the first fetch of
\* the next chunk, or to its response
SectionInsertResolves(reply) ==
    /\ storePc = "insertingSection"
    /\ UNCHANGED <<vars, normVars, pageVars>>
    /\ UNCHANGED <<emailBody, emailId, chunks, embedding, emails>>
    /\ IF reply.error # JsUndef
       THEN /\ StoreCatch(JsOr(reply.error.message,
                               JsLit("Failed to insert email section")))
            /\ UNCHANGED <<chunkIndex, url, attempt, fetches, delays, sections>>
       ELSE /\ sections' = Append(sections,
                   SectionOf(emailId, chunks[chunkIndex], embedding, chunkIndex))
            /\ chunkIndex' = chunkIndex + 1
            /\ ProcessChunk(chunks, chunkIndex + 1)

StoreNext ==
    \/ \E requestData \in StoreRequests : StorePOST(requestData)
    \/ \E reply \in InsertReplies : EmailInsertResolves(reply)
    \/ \E resp \in EmbedReplies : FetchResolves(resp)
    \/ TimerFires
    \/ \E reply \in InsertReplies : SectionInsertResolves(reply)

StoreSpec == Init /\ [][StoreNext]_storeVars

\* the steps of getHfEmbedding that end an await of its own: the reply to
\* a fetch, and the end of a delay
StoreResolves ==
    \/ \E resp \in EmbedReplies : FetchResolves(resp)
    \/ TimerFires

\* every fetch of getHfEmbedding is answered and every timer fires
StoreFairSpec == StoreSpec /\ WF_storeVars(StoreResolves)

\* The server with its two routes.  The routes share nothing but the
\* credential, so one request, to either route, is followed.
ServerNext ==
    \/ storePc = "idle" /\ Next
    \/ pc = "idle" /\ StoreNext

ServerSpec == Init /\ [][ServerNext]_<<vars, storeVars>>

----------------------------------------------------------------------------
(* The normalisation of an embedding reply, by both functions *)

\* the parsed bodies given: every shape, each field carrying either
\* numbers
NormBodies ==
    {b \in EmbedBodiesWith([top : {TheNumbers, OtherNumbers},
                            embedding : {TheNumbers, OtherNumbers},
                            embeddings : {TheNumbers, OtherNumbers},
                            data0 : {TheNumbers, OtherNumbers}]) : b.parses}

\* a 200 reply with the body
OkReply(b) == [thrown |-> FALSE, status |-> 200, body |-> b]

NormInit ==
    /\ AskInit
    /\ StoreInit
    /\ normBody \in NormBodies
    /\ askNorm = NotApplied
    /\ storeNorm = NotApplied
    /\ PageInit

\* getHfEmbedding of route.ts from JSON.parse to its return or throw
NormalizeAsk ==
    /\ askNorm = NotApplied
    /\ askNorm' = EmbeddingResult(OkReply(normBody))
    /\ UNCHANGED <<normBody, storeNorm, vars, storeVars, pageVars>>

\* one attempt of getHfEmbedding of part_000 from JSON.parse to its return
\* or throw
NormalizeStore ==
    /\ storeNorm = NotApplied
    /\ storeNorm' = AttemptResult(OkReply(normBody))
    /\ UNCHANGED <<normBody, askNorm, vars, storeVars, pageVars>>

NormNext == NormalizeAsk \/ NormalizeStore

NormSpec == NormInit /\ [][NormNext]_normVars

----------------------------------------------------------------------------
(* The ask-question page (src/app/ask-question/page.tsx) *)

\* what the user types in the textarea, and the samples the button picks
\* from (one stands for the four of the page)
TypedQuestions == {<<>>, <<" ">>, <<"a">>}
sampleQuestions == {<<"s">>}

\* replies of /api/ask-question as the page reads them: a 2xx reply with
\* data.answer, another status with data.error, or a fetch or a body that
\* throws
PageReplies ==
    [kind : {"ok"}, answer : {JsUndef, JsNull, JsStr(<<>>), JsStr(<<"x">>)},
     error : {JsUndef}]
    \cup [kind : {"failed"}, answer : {JsUndef},
          error : {JsUndef, JsLit("Missing question")}]
    \cup [kind : {"thrown"}, answer : {JsUndef}, error : {JsUndef}]

\* history.slice(0, 10)
HistoryLimit == 10
Slice10(h) == SubSeq(h, 1, IF Len(h) < HistoryLimit THEN Len(h) ELSE HistoryLimit)

\* s without the element at k
RemoveAt(s, k) == SubSeq(s, 1, k - 1) \o SubSeq(s, k + 1, Len(s))

\* handleSubmit from its entry to its fetch
handleSubmit ==
    IF Trim(pageQuestion) = <<>>
    THEN UNCHANGED pageVars
    ELSE /\ isLoading' = TRUE
         /\ errorMessage' = JsNull
         /\ pageAnswer' = JsNull
         /\ inFlight' = Append(inFlight, pageQuestion)
         /\ submitted' = submitted + 1
         /\ UNCHANGED <<pageQuestion, history>>

\* onChange of the textarea
SetQuestion(q) ==
    /\ pageQuestion' = q
    /\ UNCHANGED <<pageAnswer, isLoading, errorMessage, history, inFlight,
                   submitted>>
    /\ UNCHANGED <<vars, storeVars, normVars>>

\* the form is submitted with its button, which is disabled while
\* isLoading
Submit ==
    /\ ~isLoading
    /\ submitted < MaxRequests
    /\ handleSubmit
    /\ UNCHANGED <<vars, storeVars, normVars>>

\* the button Clear
Clear ==
    /\ pageQuestion' = <<>>
    /\ pageAnswer' = JsNull
    /\ errorMessage' = JsNull
    /\ UNCHANGED <<isLoading, history, inFlight, submitted>>
    /\ UNCHANGED <<vars, storeVars, normVars>>

\* the button Try a sample
Sample(q) ==
    /\ pageQuestion' = q
    /\ UNCHANGED <<pageAnswer, isLoading, errorMessage, history, inFlight,
                   submitted>>
    /\ UNCHANGED <<vars, storeVars, normVars>>

\* the button Load question of the entry idx of the history
LoadFromHistory(idx) ==
    /\ idx \in DOMAIN history
    /\ pageQuestion' = history[idx].q
    /\ pageAnswer' = history[idx].a
    /\ UNCHANGED <<isLoading, errorMessage, history, inFlight, submitted>>
    /\ UNCHANGED <<vars, storeVars, normVars>>

\* the button Try again, which the result card shows with an answer
tryAgain ==
    /\ Truthy(pageAnswer)
    /\ submitted < MaxRequests
    /\ handleSubmit
    /\ UNCHANGED <<vars, storeVars, normVars>>

\* handleSubmit from the reply to its fetch to its end, for the call that
\* closed over inFlight[k]
ResponseArrives(k, reply) ==
    /\ k \in DOMAIN inFlight
    /\ inFlight' = RemoveAt(inFlight, k)
    /\ isLoading' = FALSE
    /\ CASE reply.kind = "ok" ->
              /\ pageAnswer' = Nullish(reply.answer, JsLit("(no answer returned)"))
              /\ history' = Slice10(
                     <<[q |-> inFlight[k],
                        a |-> Nullish(reply.answer, JsLit("(no answer)"))]>>
                     \o history)
              /\ UNCHANGED errorMessage
         [] reply.kind = "failed" ->
              /\ errorMessage' = JsOr(reply.error, JsLit("Failed to get a response."))
              /\ UNCHANGED <<pageAnswer, history>>
         [] reply.kind = "thrown" ->
              /\ errorMessage' = JsLit("An unexpected error occurred.")
              /\ UNCHANGED <<pageAnswer, history>>
    /\ UNCHANGED <<pageQuestion, submitted>>
    /\ UNCHANGED <<vars, storeVars, normVars>>

PageNext ==
    \/ \E q \in TypedQuestions : SetQuestion(q)
    \/ Submit
    \/ Clear
    \/ \E q \in sampleQuestions : Sample(q)
    \/ \E idx \in 1..HistoryLimit : LoadFromHistory(idx)
    \/ tryAgain
    \/ \E k \in 1..MaxRequests : \E reply \in PageReplies : ResponseArrives(k, reply)

PageSpec == Init /\ [][PageNext]_pageVars

----------------------------------------------------------------------------
(* Vocabulary of the properties *)

\* s is empty or made of white space only
Blank(s) == \A i \in 1..Len(s) : IsWhite(s[i])

\* s without its leading and trailing white space
Core(s) ==
    LET idx == {i \in 1..Len(s) : ~IsWhite(s[i])}
        lo == CHOOSE i \in idx : \A j \in idx : i <= j
        hi == CHOOSE i \in idx : \A j \in idx : j <= i
    IN IF s = <<>> \/ (~IsWhite(s[1]) /\ ~IsWhite(s[Len(s)])) THEN s
       ELSE IF idx = {} THEN <<>> ELSE SubSeq(s, lo, hi)

Is2xx(resp) == ~resp.thrown /\ resp.status >= 200 /\ resp.status < 300

\* the reply of the extractive engine carries an answer, in either accepted
\* shape: an array whose first element has a string answer, or an object
\* with a string answer
CarriesAnswer(resp) ==
    /\ Is2xx(resp)
    /\ resp.body.parses
    /\ \/ resp.body.kind = "array" /\ resp.body.elem = "object"
       \/ resp.body.kind = "object"
    /\ resp.body.answer.t = "str"

GenerationPipelines == {"text-generation", "text2text-generation"}
CallsTo(rem, pipelines) == {i \in DOMAIN rem : rem[i].to \in pipelines}
WasInvoked(inv, helper) == \E i \in DOMAIN inv : inv[i] = helper

NoGeneration(inv, rem) ==
    /\ ~WasInvoked(inv, "tryGenerateWithFallbacks")
    /\ CallsTo(rem, GenerationPipelines) = {}

NoExtraction(inv, rem) ==
    /\ ~WasInvoked(inv, "tryExtractiveQA")
    /\ CallsTo(rem, {"question-answering"}) = {}

----------------------------------------------------------------------------
(* C1: with a non-empty context, a reply of the extractive engine whose
   answer is not blank ends the request with status 200, source
   "extractive-qa", the answer without its surrounding white space,
   contextFound true and the score of the reply (null when it has none),
   and no generation call is made for the request. *)
C1_ExtractiveAnswerWins ==
    /\ [][pc = "extracting" => \A resp \in QaReplies :
            (/\ pc = "extracting"
             /\ context # <<>>
             /\ CarriesAnswer(resp)
             /\ ~Blank(resp.body.answer.v)
             /\ ExtractResolves(resp))
            => /\ pc' = "done"
               /\ response' =
                    [status |-> 200,
                     body |-> Payload(JsStr(Core(resp.body.answer.v)),
                                      JsBool(TRUE), JsLit("extractive-qa"),
                                      IF resp.body.score.t = "undefined"
                                      THEN JsNull ELSE resp.body.score,
                                      JsUndef, JsUndef)]
               /\ NoGeneration(invoked', remote')]_vars
    /\ [](response.status = 200 /\ response.body.source = JsLit("extractive-qa")
            => NoGeneration(invoked, remote))

\* a request answered by the extractive engine with a padded answer and a
\* score of 0
C1_Witness ==
    /\ pc = "done"
    /\ context # <<>>
    /\ qaResult.found
    /\ qaResult.answer = JsStr(<<" ", "a">>)
    /\ qaResult.score = JsNum(0)
    /\ response.status = 200
    /\ response.body.source = JsLit("extractive-qa")
    /\ response.body.answer = JsStr(<<"a">>)

(* C2: with a non-empty context, a reply of the extractive engine whose
   answer is empty or white space only, in either accepted shape, is never
   returned: the request goes on to the generation stage exactly as it does
   when the engine returns nothing. *)
C2_BlankAnswerFallsBack ==
    /\ [][pc = "extracting" => \A resp \in QaReplies :
            (/\ pc = "extracting"
             /\ CarriesAnswer(resp)
             /\ Blank(resp.body.answer.v)
             /\ ExtractResolves(resp))
            => /\ AfterExtraction(QaNone)
               /\ pc' = "generating"
               /\ response' = NoResponse
               /\ WasInvoked(invoked', "tryGenerateWithFallbacks")
               /\ remote'[Len(remote')].to = "text-generation"]_vars
    /\ [](qaResult.found /\ Blank(qaResult.answer.v)
            => /\ pc \in {"generating", "done"}
               /\ response.body = JsUndef \/ response.body.source # JsLit("extractive-qa"))

\* the engine answered with white space and the first generation call is
\* awaited
C2_Witness ==
    /\ pc = "generating"
    /\ context # <<>>
    /\ qaResult.found
    /\ qaResult.answer = JsStr(<<" ">>)
    /\ genIdx = 1
    /\ genMode = "A"
    /\ response = NoResponse

\* the similarity search succeeded and no returned section has content
EmptyContextReply(reply) ==
    /\ reply.error = JsUndef
    /\ \/ reply.data = JsNull
       \/ /\ reply.data.t = "rows"
          /\ \A i \in DOMAIN reply.data.v :
                reply.data.v[i] = JsNull \/ reply.data.v[i] = JsStr(<<>>)

(* C3: when the context is empty and generateIfNoContext is false, the
   response is 200 with answer null, contextFound false and an info
   message, and neither the extractive nor the generative engine is
   invoked. *)
C3_NoContextShortCircuit ==
    [][pc = "searching" => \A reply \in RpcReplies :
         (/\ pc = "searching"
          /\ ~generateIfNoContext
          /\ EmptyContextReply(reply)
          /\ SearchResolves(reply))
         => /\ pc' = "done"
            /\ response'.status = 200
            /\ response'.body.answer = JsNull
            /\ response'.body.contextFound = JsBool(FALSE)
            /\ response'.body.info = noContextMsg
            /\ response'.body.source = JsUndef
            /\ response'.body.error = JsUndef
            /\ NoExtraction(invoked', remote')
            /\ NoGeneration(invoked', remote')]_vars

\* a request that ended after a successful search without content
C3_Witness ==
    /\ pc = "done"
    /\ ~generateIfNoContext
    /\ Len(remote) = 2
    /\ error = JsUndef
    /\ context = <<>>
    /\ response.status = 200
    /\ response.body.answer = JsNull

\* the reply of a generation call carries a non-empty generated_text
CarriesGeneratedText(resp) ==
    /\ Is2xx(resp)
    /\ resp.body.parses
    /\ \/ resp.body.kind = "array" /\ resp.body.elem = "object"
       \/ resp.body.kind = "object"
    /\ resp.body.generated_text.t = "str"
    /\ resp.body.generated_text.v # <<>>

(* C4: when the context is empty and generateIfNoContext is true, the
   extractive engine is not invoked, the prompt of the generation calls
   has "(no context available)" in the place of the context, and a
   successful generation gives a 200 response with contextFound false
   and an informational note. *)
C4_GeneralAnswerWithoutContext ==
    /\ [][pc = "searching" => \A reply \in RpcReplies :
            (/\ pc = "searching"
             /\ generateIfNoContext
             /\ EmptyContextReply(reply)
             /\ SearchResolves(reply))
            => /\ pc' = "generating"
               /\ NoExtraction(invoked', remote')
               /\ prompt'[3] = noContextPlaceholder
               /\ remote'[Len(remote')].to = "text-generation"
               /\ remote'[Len(remote')].inputs = prompt']_vars
    /\ [](pc \in {"generating", "done"} /\ error = JsUndef /\ context = <<>>
            => /\ NoExtraction(invoked, remote)
               /\ \A i \in CallsTo(remote, GenerationPipelines) :
                     remote[i].inputs[3] = noContextPlaceholder)
    /\ [][pc = "generating" => \A resp \in GenReplies :
            (/\ pc = "generating"
             /\ context = <<>>
             /\ CarriesGeneratedText(resp)
             /\ GenResolves(resp))
            => /\ pc' = "done"
               /\ response'.status = 200
               /\ response'.body.contextFound = JsBool(FALSE)
               /\ response'.body.info = generalAnswerMsg
               /\ response'.body.answer = JsStr(Core(resp.body.generated_text.v))]_vars

\* a general answer was generated without context
C4_Witness ==
    /\ pc = "done"
    /\ generateIfNoContext
    /\ context = <<>>
    /\ prompt # <<>>
    /\ prompt[3] = noContextPlaceholder
    /\ generated # JsUndef
    /\ response.status = 200
    /\ response.body.contextFound = JsBool(FALSE)

(* C5 as stated: whenever the generative engine succeeds, from a real
   context or from the placeholder, the 200 response carries source
   "generation". *)
C5_Original ==
    generated # JsUndef
        => /\ response.status = 200
           /\ response.body.source = JsLit("generation")

(* C5, amended: whenever the generative engine succeeds the response is
   200; it carries source "generation" and contextFound true when the
   prompt was built from a non-empty context, and no source, contextFound
   false and the general-answer note when it was built from the
   placeholder. *)
C5_GenerationSource ==
    generated # JsUndef
        => /\ pc = "done"
           /\ response.status = 200
           /\ response.body.answer = JsStr(Core(generated.v))
           /\ context # <<>>
                => /\ response.body.source = JsLit("generation")
                   /\ response.body.contextFound = JsBool(TRUE)
           /\ context = <<>>
                => /\ response.body.source = JsUndef
                   /\ response.body.contextFound = JsBool(FALSE)
                   /\ response.body.info = generalAnswerMsg

\* the engine succeeded on a prompt built from a real context, after the
\* extractive engine gave nothing usable
C5_Witness ==
    /\ pc = "done"
    /\ context # <<>>
    /\ WasInvoked(invoked, "tryExtractiveQA")
    /\ generated # JsUndef
    /\ response.body.source = JsLit("generation")

\* a generation call fails: transport error or HTTP failure
CallFails(resp) == resp.thrown \/ ~Is2xx(resp)

\* generation calls issued when the engine awaits pipeline mode of model i
CallsUpTo(i, mode) == 2 * (i - 1) + (IF mode = "A" THEN 1 ELSE 2)

(* C6: when every configured generation model has failed under both
   pipelines, the request ends with an error payload and a 5xx status whose
   message names the exhaustion of the generation models; it is never a
   200 response and differs from a successful response with an empty
   answer. *)
C6_AllModelsExhausted ==
    /\ [](pc = "generating"
            => Cardinality(CallsTo(remote, GenerationPipelines))
                 = CallsUpTo(genIdx, genMode))
    /\ [][pc = "generating" => \A resp \in GenReplies :
            (/\ pc = "generating"
             /\ genIdx = Len(genModels)
             /\ genMode = "B"
             /\ CallFails(resp)
             /\ GenResolves(resp))
            => /\ pc' = "done"
               /\ response'.status \in 500..599
               /\ response'.body.error = exhaustedMsg
               /\ response'.body.answer = JsUndef
               /\ response'.body.contextFound = JsUndef
               /\ generated' = JsUndef]_vars
    /\ [](pc = "done" /\ response.body.error = exhaustedMsg
            => /\ response.status = 502
               /\ generated = JsUndef
               /\ WasInvoked(invoked, "tryGenerateWithFallbacks"))

\* all six generation calls were made and none gave a text
C6_Witness ==
    /\ pc = "done"
    /\ Cardinality(CallsTo(remote, GenerationPipelines)) = 2 * Len(genModels)
    /\ generated = JsUndef
    /\ response.status = 502

\* the body of a request carries a question that is not blank
HasQuestion(b) ==
    /\ b.t = "object"
    /\ b.question.t = "str"
    /\ ~Blank(b.question.v)

\* the body of an embedding reply has one of the five recognised shapes
RecognisedShape(b) ==
    \/ b.kind = "array" /\ b.first \in {"number", "numArray"}
    \/ /\ b.kind = "object"
       /\ \/ b.embedding = "numArray"
          \/ b.embeddings \in {"flat", "nested"}
          \/ b.data0 = "embedding"

\* the embedding call fails: transport error, HTTP failure, or a body that
\* does not parse or has no recognised shape
EmbeddingFails(resp) ==
    \/ resp.thrown
    \/ ~Is2xx(resp)
    \/ ~resp.body.parses
    \/ ~RecognisedShape(resp.body)

IsErrorResponse(r) ==
    /\ r.status >= 400
    /\ r.body.error # JsUndef
    /\ r.body.answer = JsUndef

SearchCalls(rem) == CallsTo(rem, {"match_filtered_email_sections"})

(* C7: a request with a non-empty question calls the embedding stage
   before anything else; when the embedding fails (HTTP failure,
   transport error, unrecognised shape, missing credential) the request
   ends with an error response and the search, the extractive engine and
   the generative engine are never invoked. *)
C7_EmbeddingFirstAndFatal ==
    /\ [][pc = "idle" => \A b \in RequestBodies :
            (pc = "idle" /\ HasQuestion(b) /\ POST(b))
            => /\ invoked' = <<"getHfEmbedding">>
               /\ HF_API_KEY
                    => /\ pc' = "embedding"
                       /\ Len(remote') = 1
                       /\ remote'[1].to = "feature-extraction"
                       /\ remote'[1].inputs = JsStr(Core(b.question.v))
               /\ ~HF_API_KEY
                    => /\ pc' = "done"
                       /\ IsErrorResponse(response')
                       /\ remote' = <<>>]_vars
    /\ [][pc = "embedding" => \A resp \in EmbedReplies :
            (pc = "embedding" /\ EmbeddingFails(resp) /\ EmbeddingResolves(resp))
            => /\ pc' = "done"
               /\ IsErrorResponse(response')
               /\ invoked' = <<"getHfEmbedding">>
               /\ Len(remote') = 1]_vars
    /\ [](/\ invoked # <<>> => invoked[1] = "getHfEmbedding"
          /\ remote # <<>> => remote[1].to = "feature-extraction"
          /\ pc = "done" /\ questionEmbedding = JsUndef
               => /\ SearchCalls(remote) = {}
                  /\ ~WasInvoked(invoked, "supabase.rpc")
                  /\ NoExtraction(invoked, remote)
                  /\ NoGeneration(invoked, remote))

\* the embedding call was issued and failed
C7_Witness ==
    /\ pc = "done"
    /\ question # <<>>
    /\ invoked = <<"getHfEmbedding">>
    /\ Len(remote) = 1
    /\ questionEmbedding = JsUndef
    /\ response.status = 500

(* C8: when the similarity search returns an error the request ends with
   a 5xx response; the search is called once and never again, and neither
   the extractive nor the generative engine is invoked afterwards. *)
C8_SearchFailureFatal ==
    /\ [][pc = "searching" => \A reply \in RpcReplies :
            (pc = "searching" /\ reply.error # JsUndef /\ SearchResolves(reply))
            => /\ pc' = "done"
               /\ response'.status \in 500..599
               /\ IsErrorResponse(response')
               /\ remote' = remote
               /\ invoked' = invoked]_vars
    /\ [](/\ Cardinality(SearchCalls(remote)) <= 1
          /\ error # JsUndef
               => /\ pc = "done"
                  /\ Cardinality(SearchCalls(remote)) = 1
                  /\ NoExtraction(invoked, remote)
                  /\ NoGeneration(invoked, remote))

\* the search answered with an error
C8_Witness ==
    /\ pc = "done"
    /\ error # JsUndef
    /\ Len(remote) = 2
    /\ response.status = 500

\* the body of a request has no question, or a null, empty or blank one
MissingQuestion(b) ==
    \/ b.t = "null"
    \/ /\ b.t = "object"
       /\ \/ b.question \in {JsUndef, JsNull}
          \/ b.question.t = "str" /\ Blank(b.question.v)

(* C9: a request whose question is absent, null, empty or blank is
   answered with status 400 and an error message, with no remote call;
   every internal fatal failure (embedding, search, generation models
   exhausted) is answered with a 5xx status. *)
C9_StatusMapping ==
    /\ [][pc = "idle" => \A b \in RequestBodies :
            (pc = "idle" /\ MissingQuestion(b) /\ POST(b))
            => /\ pc' = "done"
               /\ response'.status = 400
               /\ IsErrorResponse(response')
               /\ remote' = <<>>
               /\ invoked' = <<>>]_vars
    /\ [][pc = "idle" => \A b \in RequestBodies :
            (pc = "idle" /\ HasQuestion(b) /\ ~HF_API_KEY /\ POST(b))
            => response'.status \in 500..599]_vars
    /\ [][pc = "embedding" => \A resp \in EmbedReplies :
            (pc = "embedding" /\ EmbeddingFails(resp) /\ EmbeddingResolves(resp))
            => response'.status \in 500..599]_vars
    /\ [][pc = "searching" => \A reply \in RpcReplies :
            (pc = "searching" /\ reply.error # JsUndef /\ SearchResolves(reply))
            => response'.status \in 500..599]_vars
    /\ [][pc = "generating" => \A resp \in GenReplies :
            (/\ pc = "generating"
             /\ genIdx = Len(genModels)
             /\ genMode = "B"
             /\ CallFails(resp)
             /\ GenResolves(resp))
            => response'.status \in 500..599]_vars

\* a request without a usable question was refused
C9_Witness ==
    /\ pc = "done"
    /\ question = <<>>
    /\ invoked = <<>>
    /\ remote = <<>>
    /\ response.status = 400

\* a 200 response is an AnswerResult, any other response an error payload
WellFormedResponse(r) ==
    IF r.status = 200
    THEN /\ r.body.answer = JsNull \/ r.body.answer.t = "str"
         /\ r.body.contextFound \in {JsBool(TRUE), JsBool(FALSE)}
         /\ r.body.error = JsUndef
    ELSE /\ r.status \notin 200..299
         /\ IsErrorResponse(r)

C10_Bounded ==
    /\ responses = (IF pc = "done" THEN 1 ELSE 0)
    /\ pc = "done" => WellFormedResponse(response)
    /\ pc # "done" => response = NoResponse
    /\ Cardinality(CallsTo(remote, {"feature-extraction"})) <= 1
    /\ Cardinality(SearchCalls(remote)) <= 1
    /\ Cardinality(CallsTo(remote, {"question-answering"})) <= 1
    /\ \A m \in DOMAIN genModels :
          Cardinality({i \in CallsTo(remote, GenerationPipelines) :
                          remote[i].model = genModels[m]}) <= 2
    /\ Cardinality(CallsTo(remote, GenerationPipelines)) <= 2 * Len(genModels)

(* C10: when every remote call resolves, every request reaches its end
   with exactly one response, a 200 AnswerResult or an error payload with
   a non-2xx status, after at most one embedding call, one search call,
   one extractive call and two generation calls for each configured
   model. *)
C10_TerminatesWithOneResponse ==
    /\ []C10_Bounded
    /\ (pc \notin {"idle", "done"}) ~> (pc = "done")

\* a request that used every call it may make
C10_Witness ==
    /\ pc = "done"
    /\ responses = 1
    /\ Cardinality(CallsTo(remote, {"question-answering"})) = 1
    /\ Cardinality(CallsTo(remote, GenerationPipelines)) = 2 * Len(genModels)
    /\ response.status = 200

\* the stage a remote call belongs to
StageOf(call) ==
    CASE call.to = "feature-extraction" -> 1
      [] call.to = "match_filtered_email_sections" -> 2
      [] call.to = "question-answering" -> 3
      [] call.to \in GenerationPipelines -> 4

\* the stage whose call the request awaits, 0 when it awaits none
StageAwaited ==
    CASE pc = "embedding" -> 1
      [] pc = "searching" -> 2
      [] pc = "extracting" -> 3
      [] pc = "generating" -> 4
      [] OTHER -> 0

C11_StagesInOrder ==
    /\ pc = "idle" => remote = <<>>
    /\ StageAwaited # 0
         => /\ remote # <<>>
            /\ StageOf(remote[Len(remote)]) = StageAwaited
    /\ \A i \in DOMAIN remote :
          /\ i = 1 => StageOf(remote[i]) = 1
          /\ i = 2 => StageOf(remote[i]) = 2
          /\ i >= 3 => StageOf(remote[i]) \in {3, 4}
          /\ StageOf(remote[i]) = 3 => i = 3
    /\ Cardinality(CallsTo(remote, {"question-answering"})) <= 1
    /\ Cardinality({i \in DOMAIN invoked : invoked[i] = "tryExtractiveQA"}) <= 1

(* C11: within a request the remote calls are issued in the order
   embedding, search, extraction, generation; a call is issued only by the
   step that resolves the call issued before it, so that at most one call
   is outstanding; the extractive engine is called at most once. *)
C11_SequentialStages ==
    /\ []C11_StagesInOrder
    /\ [][/\ Len(remote') <= Len(remote) + 1
          /\ Len(remote') >= Len(remote)
          /\ SubSeq(remote', 1, Len(remote)) = remote
          /\ Len(remote') = Len(remote) + 1
               => /\ StageAwaited = 0 => pc = "idle"
                  /\ StageAwaited # 0
                       => /\ StageOf(remote'[Len(remote')]) >= StageAwaited
                          /\ StageOf(remote'[Len(remote')]) = StageAwaited
                               => StageAwaited = 4]_vars

\* the extractive call resolved without a usable answer and the second
\* generation call is awaited
C11_Witness ==
    /\ pc = "generating"
    /\ Len(remote) = 5
    /\ remote[3].to = "question-answering"
    /\ remote[5].to = "text2text-generation"

\* the contents of the rows that are strings and not empty, in the order
\* of the rows
KeptContents(rows) == SelectSeq(rows, LAMBDA r : r.t = "str" /\ r.v # <<>>)

\* passages one after the other with a blank line between two of them
RECURSIVE BlankLineJoined(_)
BlankLineJoined(ps) ==
    IF ps = <<>> THEN <<>>
    ELSE IF Len(ps) = 1 THEN ps[1].v
    ELSE BlankLineJoined(SubSeq(ps, 1, Len(ps) - 1))
            \o <<"\n", "\n">> \o ps[Len(ps)].v

\* the rows in the order given by the permutation p of their positions
Permuted(rows, p) == [i \in 1..Len(rows) |-> rows[p[i]]]

(* C12: the context is the non-empty contents of the returned sections
   joined by a blank line in the order the search returned them; a
   permutation of the search result gives the context of the passages
   permuted the same way; this context is the one passed to the
   extractive engine and placed in the generation prompt. *)
C12_ContextKeepsSearchOrder ==
    /\ [][pc = "searching" => \A reply \in RpcReplies :
            (/\ pc = "searching"
             /\ reply.error = JsUndef
             /\ reply.data # JsNull
             /\ SearchResolves(reply))
            => LET rows == reply.data.v IN
               /\ context' = BlankLineJoined(KeptContents(rows))
               /\ \A p \in Permutations(1..Len(rows)) :
                     BuildContext([t |-> "rows", v |-> Permuted(rows, p)])
                       = BlankLineJoined(KeptContents(Permuted(rows, p)))
               /\ pc' = "extracting"
                    => remote'[Len(remote')].inputs.context = context'
               /\ pc' = "generating" /\ context' # <<>>
                    => remote'[Len(remote')].inputs[3] = JsStr(context')]_vars
    /\ [](/\ \A i \in CallsTo(remote, {"question-answering"}) :
                remote[i].inputs.context = context /\ context # <<>>
          /\ \A i \in CallsTo(remote, GenerationPipelines) :
                context # <<>> => remote[i].inputs[3] = JsStr(context))

\* the search returned "b" before "a" and the extractive engine is called
\* with them in that order
C12_Witness ==
    /\ pc = "extracting"
    /\ context = <<"b", "\n", "\n", "a">>
    /\ remote[Len(remote)].inputs.context = <<"b", "\n", "\n", "a">>

\* email_address the search is to be called with for the request body b
ExpectedFilter(b) ==
    IF b.email_filter = JsUndef THEN JsLit("brandon@gmail.com")
    ELSE b.email_filter

\* match_threshold the search is to be called with for the request body b,
\* in tenths
ExpectedThreshold(b) ==
    IF b.match_threshold.t = "num" THEN b.match_threshold ELSE JsNum(-3)

(* C13: the similarity search is called with match_count 10, with the
   match_threshold of the request when it is a number and -0.3 otherwise,
   and with email_address "brandon@gmail.com" when email_filter is
   omitted, null when it is null and the supplied value otherwise. *)
C13_SearchArguments ==
    /\ [][pc = "idle" => \A b \in RequestBodies :
            (pc = "idle" /\ HasQuestion(b) /\ POST(b))
            => /\ emailFilter' = ExpectedFilter(b)
               /\ matchThreshold' = ExpectedThreshold(b)]_vars
    /\ [][pc # "idle" => UNCHANGED <<emailFilter, matchThreshold>>]_vars
    /\ [][pc = "embedding" /\ pc' = "searching"
            => /\ Len(remote') = 2
               /\ remote'[2] =
                    [to |-> "match_filtered_email_sections",
                     query_embedding |-> questionEmbedding',
                     match_threshold |-> matchThreshold,
                     match_count |-> 10,
                     email_address |-> emailFilter]]_vars
    /\ [](\A i \in SearchCalls(remote) :
             /\ remote[i].match_count = 10
             /\ remote[i].match_threshold = matchThreshold
             /\ remote[i].email_address = emailFilter
             /\ remote[i].query_embedding = TheVector)

\* the search is called without a filter and with a threshold of 0
C13_Witness ==
    /\ pc = "searching"
    /\ emailFilter = JsNull
    /\ matchThreshold = JsNum(0)
    /\ remote[2].email_address = JsNull
    /\ remote[2].match_threshold = JsNum(0)
    /\ remote[2].match_count = 10

\* the reply is a transient failure: rate limit or server error
TransientReply(resp) ==
    /\ ~resp.thrown
    /\ resp.status = 429 \/ resp.status >= 500

(* C15 as stated: in the ask-question request a 429 or 5xx reply to the
   embedding call is retried (the call is issued again while the attempt
   limit is not reached) before the request is failed. *)
C15_Original ==
    [][pc = "embedding" => \A resp \in EmbedReplies :
         (/\ pc = "embedding"
          /\ TransientReply(resp)
          /\ Cardinality(CallsTo(remote, {"feature-extraction"})) < maxAttempts
          /\ EmbeddingResolves(resp))
         => /\ pc' = "embedding"
            /\ response' = NoResponse
            /\ Len(remote') = Len(remote) + 1
            /\ remote'[Len(remote')].to = "feature-extraction"]_vars

(* C16 as stated: a 200 response with source "generation" never carries
   an empty answer. *)
C16_Original ==
    response.status = 200 /\ response.body.source = JsLit("generation")
        => /\ response.body.answer.t = "str"
           /\ response.body.answer.v # <<>>

\* the generation calls of the request, in the order they were issued
GenCalls(rem) == SelectSeq(rem, LAMBDA c : c.to \in GenerationPipelines)

\* the pipeline and the model of the k-th generation call of the order
\* A(m1), B(m1), A(m2), B(m2), ...
PipelineOfCall(k) ==
    IF k % 2 = 1 THEN "text-generation" ELSE "text2text-generation"
ModelOfCall(k) == genModels[(k + 1) \div 2]

\* a generation call fails: transport error, HTTP failure, or a body from
\* which nothing can be read (not JSON, null, or an array of null)
GenerationCallFails(resp) ==
    \/ resp.thrown
    \/ ~Is2xx(resp)
    \/ ~resp.body.parses
    \/ resp.body.kind = "null"
    \/ resp.body.kind = "array" /\ resp.body.elem = "null"

(* C17: the generation calls are issued in the order A(m1), B(m1), A(m2),
   B(m2), ... over the configured models: a call is issued only after the
   call before it in that order failed, and after the first successful call
   no further generation call is issued. *)
C17_GenerationOrder ==
    /\ [](LET g == GenCalls(remote) IN
          /\ Len(g) <= 2 * Len(genModels)
          /\ \A k \in DOMAIN g :
                /\ g[k].to = PipelineOfCall(k)
                /\ g[k].model = ModelOfCall(k)
                /\ g[k].inputs = prompt
          /\ generated # JsUndef => pc = "done")
    /\ [][pc = "generating" =>
            LET n == Len(GenCalls(remote))
                nextIssued ==
                    /\ pc' = "generating"
                    /\ Len(remote') = Len(remote) + 1
                    /\ remote'[Len(remote')].to = PipelineOfCall(n + 1)
                    /\ remote'[Len(remote')].model = ModelOfCall(n + 1)
                noneIssued == pc' = "done" /\ remote' = remote
            IN \A resp \in GenReplies :
                  IF GenerationCallFails(resp)
                  THEN \/ IF n < 2 * Len(genModels)
                          THEN nextIssued
                          ELSE noneIssued /\ generated' = JsUndef
                       \/ ~GenResolves(resp)
                  ELSE \/ noneIssued /\ generated' # JsUndef
                       \/ ~GenResolves(resp)]_vars
    /\ [][pc = "done" => remote' = remote]_vars

\* the second pipeline of the second model gave the text
C17_Witness ==
    /\ pc = "done"
    /\ generated # JsUndef
    /\ Len(GenCalls(remote)) = 4
    /\ remote[Len(remote)].to = "text2text-generation"
    /\ remote[Len(remote)].model = "gpt2-medium"

\* the text the order of shapes takes from a parsed generation body:
\* generated_text of the first array element, a bare generated_text that
\* is a non-empty text, text of the first array element; JsUndef when no
\* shape matches
FirstMatch(b) ==
    IF b.kind = "array" /\ b.elem = "object" /\ b.generated_text.t = "str"
    THEN b.generated_text
    ELSE IF b.kind = "object" /\ b.generated_text.t = "str"
            /\ b.generated_text.v # <<>>
    THEN b.generated_text
    ELSE IF b.kind = "array" /\ b.elem = "object" /\ b.text.t = "str"
    THEN b.text
    ELSE JsUndef

\* the dump of a parsed body: its JSON text, cut after 4000 characters
DumpOf(b) ==
    LET d == Stringify(b) IN
    JsStr(IF Len(d) <= 4000 THEN d ELSE SubSeq(d, 1, 4000))

\* the text a generation call is to return for the parsed body b
ExpectedText(b) == IF FirstMatch(b) # JsUndef THEN FirstMatch(b) ELSE DumpOf(b)

\* nothing can be read from the parsed body: it is null, or an array
\* whose first element is null
Unreadable(b) == b.kind = "null" \/ (b.kind = "array" /\ b.elem = "null")

(* C18 as stated: every 2xx generation reply that parses makes the call
   succeed, with the text of the first matching shape or, when none
   matches, the dump of the body cut after 4000 characters. *)
C18_Original ==
    [][pc = "generating" => \A resp \in GenReplies :
         (/\ pc = "generating"
          /\ Is2xx(resp)
          /\ resp.body.parses
          /\ GenResolves(resp))
         => /\ pc' = "done"
            /\ remote' = remote
            /\ generated' = ExpectedText(resp.body)]_vars

(* C18, amended: every 2xx generation reply that parses to a value other
   than null and other than an array whose first element is null makes
   the call succeed, under either pipeline, with the text of the first
   matching shape in the order first element's generated_text, bare
   generated_text, first element's text, or, when none matches, the dump
   of the body cut after 4000 characters; no further call is issued. *)
C18_ShapeOrderAndDump ==
    [][pc = "generating" => \A resp \in GenReplies :
         (/\ pc = "generating"
          /\ Is2xx(resp)
          /\ resp.body.parses
          /\ ~Unreadable(resp.body))
         => \/ /\ pc' = "done"
               /\ remote' = remote
               /\ response'.status = 200
               /\ generated' = ExpectedText(resp.body)
               /\ Len(generated'.v) <= 4000
            \/ ~GenResolves(resp)]_vars

\* the second pipeline answered with a body of no recognised shape,
\* longer than the limit, and its cut dump was returned
C18_Witness ==
    /\ pc = "done"
    /\ genMode = "B"
    /\ generated # JsUndef
    /\ Len(generated.v) = 4000
    /\ generated.v[1] = "\""
    /\ response.status = 200

\* the body of a reply of the extractive engine has an accepted shape: an
\* array whose first element has a text as answer, or an object whose
\* answer is a text that is not empty
AcceptedAnswerShape(b) ==
    \/ b.kind = "array" /\ b.elem = "object" /\ b.answer.t = "str"
    \/ b.kind = "object" /\ b.answer.t = "str" /\ b.answer.v # <<>>

\* the extractive call gives nothing: transport error, HTTP failure, a
\* body that is not JSON, or a shape that is not accepted
ExtractionFails(resp) ==
    \/ resp.thrown
    \/ ~Is2xx(resp)
    \/ ~resp.body.parses
    \/ ~AcceptedAnswerShape(resp.body)

(* C19: the extractive engine never raises to the request: a transport
   error, a non-2xx reply, an unparsable body or an unrecognised shape
   each make it return no answer, and the request goes on to the first
   generation call instead of ending with an error response. *)
C19_ExtractionNeverRaises ==
    /\ [][pc = "extracting" => \A resp \in QaReplies :
            (pc = "extracting" /\ ExtractionFails(resp) /\ ExtractResolves(resp))
            => /\ qaResult' = QaNone
               /\ pc' = "generating"
               /\ response' = NoResponse
               /\ responses' = 0
               /\ invoked' = Append(invoked, "tryGenerateWithFallbacks")
               /\ Len(remote') = Len(remote) + 1
               /\ remote'[Len(remote')].to = "text-generation"
               /\ remote'[Len(remote')].model = genModels[1]]_vars
    /\ [](pc = "done" /\ WasInvoked(invoked, "tryExtractiveQA") /\ ~qaResult.found
            => /\ WasInvoked(invoked, "tryGenerateWithFallbacks")
               /\ response.status # 500
               /\ response.status = 200 \/ response.body.error = exhaustedMsg)

\* the extractive call gave nothing and the first generation call is
\* awaited
C19_Witness ==
    /\ pc = "generating"
    /\ WasInvoked(invoked, "tryExtractiveQA")
    /\ qaResult = QaNone
    /\ Len(remote) = 4
    /\ response = NoResponse

\* the fetch calls of the current getHfEmbedding call to the endpoint u
FetchesTo(u) == {k \in DOMAIN fetches : fetches[k].url = u}

\* the delays awaited since the first attempt on the current endpoint
DelaysOnEndpoint ==
    SubSeq(delays, Len(delays) - (attempt - 1) + 1, Len(delays))

\* every failure on the current endpoint so far was a transient one: the
\* i-th delay on it is i times 300 ms
OnlyTransientSoFar ==
    \A k \in 1..(attempt - 1) : DelaysOnEndpoint[k] = k * 300

(* C20: in the retrying embedding client a 429 or 5xx reply is followed
   by a delay of 300 ms times the attempt and then by the next call to the
   same endpoint; when the primary endpoint answers k < 3 such replies and
   then a 2xx reply of a recognised shape, the client returns after
   exactly k delays, the i-th being i times 300 ms, and k + 1 calls to
   that endpoint, with no call to the fallback endpoint; no endpoint is
   called more than 3 times. *)
C20_TransientRetries ==
    /\ [][storePc = "fetching" => \A resp \in EmbedReplies :
            (storePc = "fetching" /\ TransientReply(resp) /\ FetchResolves(resp))
            => /\ storePc' = "waiting"
               /\ delays' = Append(delays, attempt * 300)
               /\ fetches' = fetches
               /\ url' = url
               /\ attempt' = attempt]_storeVars
    /\ [][storePc = "waiting" /\ attempt < 3
            => /\ storePc' = "fetching"
               /\ fetches' = Append(fetches,
                     [url |-> tryEndpoints[url], attempt |-> attempt + 1,
                      inputs |-> chunks[chunkIndex]])
               /\ url' = url
               /\ attempt' = attempt + 1
               /\ delays' = delays]_storeVars
    /\ [][storePc = "fetching" => \A resp \in EmbedReplies :
            (/\ storePc = "fetching"
             /\ Is2xx(resp)
             /\ resp.body.parses
             /\ RecognisedShape(resp.body))
            => \/ /\ storePc' = "insertingSection"
                  /\ embedding' = TheVector
                  /\ fetches' = fetches
                  /\ delays' = delays
               \/ ~FetchResolves(resp)]_storeVars
    /\ [](storePc \in {"fetching", "insertingSection"}
            => /\ attempt \in 1..3
               /\ Cardinality(FetchesTo(tryEndpoints[url])) = attempt
               /\ Len(delays) >= attempt - 1
               /\ OnlyTransientSoFar /\ url = 1
                    => /\ Len(delays) = attempt - 1
                       /\ Len(fetches) = attempt
                       /\ FetchesTo("urlFallback") = {})
    /\ [](\A u \in {"urlPrimary", "urlFallback"} : Cardinality(FetchesTo(u)) <= 3)

\* two transient failures of the primary endpoint, then its vector
C20_Witness ==
    /\ storePc = "insertingSection"
    /\ url = 1
    /\ delays = <<300, 600>>
    /\ Len(fetches) = 3
    /\ embedding = TheVector

(* C14: without the credential the embedding operation of either route
   fails at once, with no remote call and no delay, and the request that
   asked for it ends with an error response of status 500. *)
C14_MissingCredentialFailsAtOnce ==
    /\ [][pc = "idle" => \A b \in RequestBodies :
            (pc = "idle" /\ ~HF_API_KEY /\ HasQuestion(b) /\ POST(b))
            => /\ invoked' = <<"getHfEmbedding">>
               /\ remote' = <<>>
               /\ pc' = "done"
               /\ response'.status = 500
               /\ IsErrorResponse(response')]_vars
    /\ [][storePc = "insertingEmail" => \A reply \in InsertReplies :
            (/\ storePc = "insertingEmail"
             /\ ~HF_API_KEY
             /\ reply.error = JsUndef
             /\ splitIntoChunks(emailBody) # <<>>
             /\ EmailInsertResolves(reply))
            => /\ storePc' = "done"
               /\ fetches' = <<>>
               /\ delays' = <<>>
               /\ storeResponse'.status = 500
               /\ storeResponse'.body.error # JsUndef
               /\ storeResponse'.body.message = JsUndef]_storeVars
    /\ [](~HF_API_KEY
            => /\ remote = <<>>
               /\ fetches = <<>>
               /\ delays = <<>>
               /\ storePc # "waiting"
               /\ response.status # 200
               /\ storeResponse.status = 200 => chunks = <<>>)

\* the store-email request asked for the embedding of its first chunk
\* without the credential
C14_Witness ==
    /\ ~HF_API_KEY
    /\ storePc = "done"
    /\ emails # <<>>
    /\ chunks # <<>>
    /\ fetches = <<>>
    /\ storeResponse.status = 500

\* the client leaves the endpoint u after an attempt on it: the first call
\* to the next endpoint is issued at once, or, the endpoint being the last,
\* the call fails, with no delay and no further call to u
LeavesEndpoint(u) ==
    \/ /\ u < Len(tryEndpoints)
       /\ storePc' = "fetching"
       /\ url' = u + 1
       /\ attempt' = 1
       /\ fetches' = Append(fetches, [url |-> tryEndpoints[u + 1], attempt |-> 1,
                                      inputs |-> chunks[chunkIndex]])
       /\ delays' = delays
    \/ /\ u = Len(tryEndpoints)
       /\ storePc' = "done"
       /\ fetches' = fetches
       /\ delays' = delays

\* a 2xx reply whose body parses and has none of the recognised shapes
UnrecognisedReply(resp) ==
    /\ Is2xx(resp)
    /\ resp.body.parses
    /\ ~RecognisedShape(resp.body)

(* C21 as stated: in the retrying embedding client a 2xx reply whose body
   has none of the recognised shapes is not retried: the client goes on to
   the next endpoint at once and the endpoint that answered is not called
   again. *)
C21_Original ==
    [][storePc = "fetching" => \A resp \in EmbedReplies :
         (storePc = "fetching" /\ UnrecognisedReply(resp))
         => LeavesEndpoint(url) \/ ~FetchResolves(resp)]_storeVars

\* a reply with a status that is neither 2xx nor 429 nor 5xx
PermanentReply(resp) ==
    /\ ~resp.thrown
    /\ ~Is2xx(resp)
    /\ resp.status # 429
    /\ resp.status < 500

(* C22 as stated: in the retrying embedding client a reply with a non-2xx
   status other than 429 and below 500 ends the attempts on the endpoint:
   the client goes on to the next endpoint at once and the endpoint that
   answered is not called again. *)
C22_Original ==
    [][storePc = "fetching" => \A resp \in EmbedReplies :
         (storePc = "fetching" /\ PermanentReply(resp))
         => LeavesEndpoint(url) \/ ~FetchResolves(resp)]_storeVars

\* the message of the error getHfEmbedding throws when every endpoint is
\* exhausted
anyEndpointMsg ==
    JsLit("Failed to fetch embedding from Hugging Face with any endpoint")

\* the reply gives the client a normalized vector
VectorReply(resp) ==
    /\ Is2xx(resp)
    /\ resp.body.parses
    /\ RecognisedShape(resp.body)

\* the embedding client is running: it awaits a fetch or a delay
ClientRuns == storePc \in {"fetching", "waiting"}

(* C23: the retrying embedding client calls the primary endpoint before
   the fallback, and the fallback only after three calls to the primary,
   none of which gave a vector; no endpoint is called more than three
   times (six calls in all); a reply that gives a vector makes the client
   return it with no further call, and the client fails with the "any
   endpoint" error only after three calls to each endpoint, on a reply or
   a delay that gave no vector; when every call resolves, the client ends,
   returning or failing. *)
C23_EndpointOrderAndTermination ==
    /\ [](\A j \in DOMAIN fetches : \A k \in DOMAIN fetches :
            (j < k /\ fetches[j].url = "urlFallback")
                => fetches[k].url = "urlFallback")
    /\ [](FetchesTo("urlFallback") # {}
            => /\ Cardinality(FetchesTo("urlPrimary")) = 3
               /\ \A k \in FetchesTo("urlPrimary") : fetches[k].attempt = k)
    /\ [](/\ \A u \in {"urlPrimary", "urlFallback"} : Cardinality(FetchesTo(u)) <= 3
          /\ Len(fetches) <= 6)
    /\ [](ClientRuns => fetches # <<>> /\ fetches[1].url = "urlPrimary")
    /\ [][storePc = "fetching" => \A resp \in EmbedReplies :
            IF VectorReply(resp)
            THEN \/ /\ storePc' = "insertingSection"
                    /\ embedding' = TheVector
                    /\ fetches' = fetches
                 \/ ~FetchResolves(resp)
            ELSE \/ storePc' \in {"waiting", "fetching", "done"} /\ embedding' = embedding
                 \/ ~FetchResolves(resp)]_storeVars
    /\ [][ClientRuns /\ storePc' = "done"
            => /\ storeResponse'.status = 500
               /\ storeResponse'.body.error = anyEndpointMsg
               /\ Len(fetches) = 6
               /\ fetches' = fetches]_storeVars
    /\ [](storePc = "done" /\ storeResponse.body.error = anyEndpointMsg
            => /\ storeResponse.status = 500
               /\ Cardinality(FetchesTo("urlPrimary")) = 3
               /\ Cardinality(FetchesTo("urlFallback")) = 3
               /\ Len(sections) < Len(chunks))
    /\ (ClientRuns ~> storePc \in {"insertingSection", "done"})

\* the six calls gave no vector and the client failed
C23_Witness ==
    /\ storePc = "done"
    /\ storeResponse.body.error = anyEndpointMsg
    /\ Len(fetches) = 6
    /\ fetches[3].url = "urlPrimary"
    /\ fetches[4].url = "urlFallback"

\* the first of the five shapes, in the order (a) to (e), that a parsed
\* body has, or "none"
FirstShape(b) ==
    IF b.kind = "array" /\ b.first = "number" THEN "a"
    ELSE IF b.kind = "array" /\ b.first = "numArray" THEN "b"
    ELSE IF b.kind = "object" /\ b.embedding = "numArray" THEN "c"
    ELSE IF b.kind = "object" /\ b.embeddings \in {"flat", "nested"} THEN "d"
    ELSE IF b.kind = "object" /\ b.data0 = "embedding" THEN "e"
    ELSE "none"

\* the numbers a body carries in the shape
NumbersOfShape(b, shape) ==
    CASE shape \in {"a", "b"} -> b.numbers.top
      [] shape = "c" -> b.numbers.embedding
      [] shape = "d" -> b.numbers.embeddings
      [] shape = "e" -> b.numbers.data0

(* C24: both embedding functions normalize a parsed 2xx body alike, trying
   the shapes in the order (a) array of numbers, (b) array with one row,
   (c) embedding field, (d) embeddings field, flat or nested, (e)
   data[0].embedding: the result is the flat vector of the numbers the
   first matching shape carries, whichever shape that is, and a body with
   none of the shapes gives an error and no vector. *)
C24_SameNormalization ==
    /\ [](askNorm # NotApplied
            => IF FirstShape(normBody) = "none"
               THEN askNorm = Thrown
               ELSE askNorm = Returned(
                      Vec(NumbersOfShape(normBody, FirstShape(normBody)))))
    /\ [](storeNorm # NotApplied
            => IF FirstShape(normBody) = "none"
               THEN storeNorm = AttemptError
               ELSE storeNorm = AttemptVector(
                      Vec(NumbersOfShape(normBody, FirstShape(normBody)))))
    /\ [](askNorm # NotApplied /\ storeNorm # NotApplied
            => /\ askNorm.ok <=> storeNorm.kind = "vector"
               /\ askNorm.ok => askNorm.val = storeNorm.val
               /\ askNorm.ok => askNorm.val.v \in {TheNumbers, OtherNumbers})

\* a body with an embedding field and a data[0].embedding of other
\* numbers, normalized by both functions to the numbers of the former
C24_Witness ==
    /\ normBody.kind = "object"
    /\ normBody.embedding = "numArray"
    /\ normBody.embeddings = "other"
    /\ normBody.data0 = "embedding"
    /\ normBody.numbers.embedding = OtherNumbers
    /\ normBody.numbers.data0 = TheNumbers
    /\ askNorm = Returned(Vec(OtherNumbers))
    /\ storeNorm = AttemptVector(Vec(OtherNumbers))

\* the handler works on a chunk: it awaits the embedding client or the
\* insert of the section
InChunkLoop == storePc \in {"fetching", "waiting", "insertingSection"}

(* C25: the store-email handler works on the chunks of the body one at a
   time and in their order: while it works on chunk i exactly the sections
   of the chunks 1..i-1 are stored; a section is inserted only when the
   embedding client has returned the vector of its chunk, and section i
   holds chunk i, that vector and section_order i; the handler responds
   200 only when every chunk has its section, the orders being 1..n. *)
C25_SectionsInChunkOrder ==
    /\ [](\A k \in DOMAIN sections :
            /\ sections[k].section_order = k
            /\ sections[k].section_content = chunks[k]
            /\ sections[k].embedding = TheVector
            /\ sections[k].email_id = emailId)
    /\ [](InChunkLoop
            => /\ chunks = splitIntoChunks(emailBody)
               /\ chunkIndex = Len(sections) + 1
               /\ chunkIndex <= Len(chunks)
               /\ fetches # <<>>
               /\ \A k \in DOMAIN fetches : fetches[k].inputs = chunks[chunkIndex])
    /\ [][sections' # sections
            => /\ storePc = "insertingSection"
               /\ embedding = TheVector
               /\ fetches[Len(fetches)].inputs = chunks[chunkIndex]
               /\ sections' = Append(sections,
                     [email_id |-> emailId, section_content |-> chunks[chunkIndex],
                      embedding |-> embedding, section_order |-> chunkIndex])
               /\ chunkIndex' = chunkIndex + 1]_storeVars
    /\ [][storePc' = "insertingSection" /\ storePc # "insertingSection"
            => /\ storePc = "fetching"
               /\ embedding' = TheVector
               /\ sections' = sections
               /\ chunkIndex' = chunkIndex]_storeVars
    /\ [][storePc # "done" /\ storePc' = "done" /\ storeResponse'.status = 200
            => /\ storePc \in {"insertingEmail", "insertingSection"}
               /\ Len(sections') = Len(chunks')
               /\ chunks' = splitIntoChunks(emailBody)
               /\ \A k \in DOMAIN chunks' : sections'[k].section_order = k]_storeVars
    /\ [](storeResponse.status = 200
            => /\ Len(sections) = Len(chunks)
               /\ {sections[k].section_order : k \in DOMAIN sections}
                    = 1..Len(chunks))

\* a body of two chunks was stored
C25_Witness ==
    /\ storePc = "done"
    /\ storeResponse.status = 200
    /\ Len(chunks) = 2
    /\ Len(sections) = 2
    /\ sections[2].section_order = 2

(* C26 as stated: every ask-question request whose body does not carry a
   question that is a string and is not blank (a body that is not JSON and
   a question that is not a string included) is answered at once with a
   status of the 4xx range. *)
C26_Original ==
    [][pc = "idle" => \A b \in RequestBodies :
         ~HasQuestion(b)
         => \/ /\ pc' = "done"
               /\ response'.status >= 400
               /\ response'.status < 500
            \/ ~POST(b)]_vars

(* C27: in every response of status 200 of the ask-question handler the
   field contextFound is a boolean that is true exactly when the joined
   context is not the empty string, and a field source is there only when
   contextFound is true. *)
C27_ContextFoundAndSource ==
    /\ [](pc = "done" /\ response.status = 200
            => /\ response.body.contextFound = JsBool(context # <<>>)
               /\ response.body.source # JsUndef
                    => response.body.contextFound = JsBool(TRUE))
    /\ [][pc # "done" /\ pc' = "done" /\ response'.status = 200
            => /\ pc \in {"searching", "extracting", "generating"}
               /\ response'.body.contextFound = JsBool(context' # <<>>)
               /\ context' = <<>> => response'.body.source = JsUndef]_vars

\* a generated answer over a context: contextFound is true and the source
\* is named
C27_Witness ==
    /\ pc = "done"
    /\ response.status = 200
    /\ context # <<>>
    /\ generated # JsUndef
    /\ response.body.contextFound = JsBool(TRUE)
    /\ response.body.source = JsLit("generation")

\* a 2xx reply whose body is not JSON, or is the JSON value null
NoJsonReply(resp) ==
    /\ Is2xx(resp)
    /\ ~resp.body.parses \/ resp.body.kind = "null"

(* C28: in tryGenerateWithFallbacks a 2xx reply whose body is not JSON, or
   parses to null, is a failure of that call: no text is returned and the
   request gets no response from it; the next call of the order (the other
   pipeline, then the next model) is issued, and when the call was the
   last of the order the engine fails and the request ends with the
   response of the exhausted generation, status 502. *)
C28_UnparsableBodyFailsTheMode ==
    [][pc = "generating" =>
         LET n == Len(GenCalls(remote))
         IN \A resp \in GenReplies :
               NoJsonReply(resp)
               => \/ /\ generated' = JsUndef
                     /\ IF n < 2 * Len(genModels)
                        THEN /\ pc' = "generating"
                             /\ response' = NoResponse
                             /\ responses' = 0
                             /\ GenCalls(remote') =
                                  Append(GenCalls(remote),
                                         FetchCall(PipelineOfCall(n + 1),
                                                   ModelOfCall(n + 1), prompt))
                        ELSE /\ pc' = "done"
                             /\ remote' = remote
                             /\ response'.status = 502
                             /\ response'.body.error = exhaustedMsg
                             /\ response'.body.answer = JsUndef
                  \/ ~GenResolves(resp)]_vars

\* the first generation call failed and the second, under the other
\* pipeline, is awaited
C28_Witness ==
    /\ pc = "generating"
    /\ genIdx = 1
    /\ genMode = "B"
    /\ Len(GenCalls(remote)) = 2
    /\ generated = JsUndef
    /\ response = NoResponse

\* the sequence a is the beginning of the sequence b
IsPrefix(a, b) == Len(a) <= Len(b) /\ SubSeq(b, 1, Len(a)) = a

\* the requests that carry JSON and do not pass the validation
RejectedRequests ==
    {r \in StoreRequests : r.t # "invalid"} \ {ValidRequest(w) : w \in Texts}

(* C29: the store-email handler does not undo what it stored.  When the
   embedding client fails on chunk k, or the insert of section k fails,
   the response is 500, the email row and the sections 1..k-1 stay
   stored, and nothing is embedded or inserted afterwards; no step ever
   removes a row.  When the validation of the request fails the response
   is 400, no row is inserted and no embedding call is made. *)
C29_NoRollback ==
    /\ [][IsPrefix(emails, emails') /\ IsPrefix(sections, sections')]_storeVars
    /\ [][storePc # "done"]_storeVars
    /\ [][ClientRuns /\ storePc' = "done"
            => /\ storeResponse'.status = 500
               /\ emails' = emails /\ Len(emails) = 1
               /\ sections' = sections /\ Len(sections) = chunkIndex - 1
               /\ fetches' = fetches
               /\ chunkIndex' = chunkIndex]_storeVars
    /\ [][storePc = "insertingSection" => \A reply \in InsertReplies :
            reply.error # JsUndef
            => \/ /\ storePc' = "done"
                  /\ storeResponse'.status = 500
                  /\ emails' = emails /\ Len(emails) = 1
                  /\ sections' = sections /\ Len(sections) = chunkIndex - 1
                  /\ fetches' = fetches
                  /\ chunkIndex' = chunkIndex
               \/ ~SectionInsertResolves(reply)]_storeVars
    /\ [](storePc = "done" /\ storeResponse.status = 500 /\ emails # <<>>
            => /\ Len(sections) = chunkIndex - 1
               /\ chunkIndex <= Len(chunks)
               /\ \A k \in DOMAIN sections :
                     /\ sections[k].section_content = chunks[k]
                     /\ sections[k].section_order = k
               /\ \A k \in DOMAIN fetches : fetches[k].inputs = chunks[chunkIndex])
    /\ [][storePc = "idle" => \A r \in RejectedRequests :
            \/ /\ storePc' = "done"
               /\ storeResponse'.status = 400
               /\ emails' = <<>> /\ sections' = <<>> /\ fetches' = <<>>
            \/ ~StorePOST(r)]_storeVars
    /\ [](storeResponse.status = 400
            => /\ storePc = "done"
               /\ emails = <<>> /\ sections = <<>>
               /\ fetches = <<>> /\ delays = <<>>)

\* the second chunk failed: the email and the first section stay stored
C29_Witness ==
    /\ storePc = "done"
    /\ storeResponse.status = 500
    /\ Len(emails) = 1
    /\ Len(chunks) = 2
    /\ chunkIndex = 2
    /\ Len(sections) = 1
    /\ sections[1].section_content = chunks[1]

(* C30 as stated: on the ask-question page at most one request to
   /api/ask-question is outstanding at any time, and isLoading is true
   exactly while a request is outstanding. *)
C30_Original ==
    /\ Len(inFlight) <= 1
    /\ isLoading <=> inFlight # <<>>

====
